---- MODULE Spec2Model ----
(***************************************************************************)
(* Verification model of schwabpy_api:                                     *)
(*   - the token lifecycle (schwab/auth.py: TokenManager, SchwabAsyncOAuth)*)
(*   - the duplex stream session (schwab/utils.py: CustomSocket) and the   *)
(*     provider stream client (schwab/streamer.py: StreamClient).          *)
(* All coroutines run on one asyncio event loop: a coroutine runs without  *)
(* interruption from one await that really suspends (network I/O, an empty *)
(* queue, a sleep) to the next, so each action below is one such stretch.  *)
(***************************************************************************)
EXTENDS Integers, Sequences, FiniteSets, TLC

(***************************************************************************)
(* Bounds of the model                                                     *)
(***************************************************************************)
NTasks == 2        \* concurrent callers of check_authentication
MaxTicks == 3      \* clock steps explored after StartNow
MaxIssued == 3     \* tokens the provider issues in one run
MaxLeeway == 1     \* largest expiry margin of the OAuth2Token library
ExpiresIn == 2     \* lifetime the provider gives an access token
StartNow == 10     \* epoch of the first state
MaxConnects == 2   \* connect() calls on the session
MaxProduced == 4   \* request ids below which subscription calls are made
MaxInbound == 2    \* messages the server sends
MaxRoot == 3       \* characters of the longest generated option root
MaxStrike == 2     \* characters of the longest generated strike
MaxRounds == 2     \* rounds of market requests that are recorded

(***************************************************************************)
(* Program constants                                                       *)
(***************************************************************************)
RefreshDays == 7                 \* timedelta(days=7)
TOKEN_KEY == "schwabToken"       \* TokenManager.TOKEN_KEY
SYMBOL_WIDTH == 6                \* input[:i].ljust(6)
DATE_LEN == 6                    \* input[i : i + 6]
TYPE_AT == 6                     \* input[i + 6]
STRIKE_AT == 7                   \* input[i + 7 :]
STRIKE_WIDTH == 8                \* .ljust(8, "0")
EQUITY_LAST_FIELD == 51          \* LevelOneEquities.Fields.ALL ends with 51
OPTION_LAST_FIELD == 55          \* LevelOneOptions.Fields.ALL ends with 55
BOOK_LAST_FIELD == 3             \* Book.Fields.ALL ends with 3

Tasks == 1..NTasks

VARIABLES
    now,            \* datetime.now(timezone.utc) / time.time(), in days
    leeway,         \* margin OAuth2Token.is_expired() applies (library, fixed per run)
    token,          \* SchwabAsyncOAuth.token
    token_metadata, \* SchwabAsyncOAuth.token_metadata (a TokenManager)
    store,          \* the redis database: key -> decoded JSON document
    issued,         \* number of tokens the provider has issued
    pc,             \* per caller: position inside check_authentication
    path,           \* per caller: what this call has done so far (history)
    error,          \* per caller: where the exception that ended the call arose
    store_up,       \* TRUE while the store answers
    refresh_arg,    \* per caller: refresh_token passed to refresh_token()
    \* ---- stream session (CustomSocket / StreamClient) ----
    ws,             \* self._ws: "unset" (the class placeholder), "open", "closed"
    ws_id,          \* which connection self._ws refers to (0: none yet)
    request_id,     \* self._request_id
    send_queue,     \* self.send_queue
    receive_queue,  \* self.receive_queue
    sock_in,        \* messages the server has sent that recv() has not yet returned
    wire,           \* messages written to the socket, in write order (history)
    lost,           \* messages taken from send_queue whose write failed (history)
    produced,       \* messages passed to produce(), in call order (history)
    arrived,        \* messages that arrived on the socket, in order (history)
    consumed,       \* messages taken by consume() calls, in call order (history)
    send_pc,        \* per sender task: position inside _send_msg
    recv_pc,        \* per receiver task: position inside _recv_msg
    conn_pc,        \* per connect() call: position inside connect
    login_request,  \* per connect() call: its local login_request
    login_status,   \* per connect() call: what _is_login_success returned
    log,            \* per connect() call: the lines it logged
    _stream_customer_id,  \* the session's customer id, "None" before login
    _stream_correl_id,    \* the session's correlation id, "None" before login
    user_preference,      \* self.user_preference: the streamerInfo entry given
    \* ---- authenticated HTTP client (CustomCRUD) ----
    req,            \* per caller: the request operation it is in
    \* ---- market session gate (app.py) ----
    mkt_status,     \* the shared dict: openTime and closeTime
    mkt_interrupt,  \* the asyncio.Event: TRUE when set
    gate_pc,        \* market_status_interrupt task: "running" or "ended"
    gate_eval,      \* the last evaluation of the window by the gate task (history)
    mf_pc,          \* market_function: "waiting" on the event or "polling"
    mf_work,        \* what the event was at each round of market requests (history)
    \* ---- option symbol transform (parse_option_string) ----
    sym_parts,      \* the root, date, type and strike the input is made of
    sym_in,         \* the input string
    sym_out,        \* what parse_option_string returned for it
    sub_args        \* the symbols and fields the application subscribes with

authVars == <<now, leeway, token, token_metadata, store, issued, pc, path,
              error, store_up,
              refresh_arg>>

streamVars == <<ws, ws_id, request_id, send_queue, receive_queue, sock_in,
                wire, lost, produced, arrived, consumed, send_pc, recv_pc,
                conn_pc, login_request, login_status, log,
                _stream_customer_id, _stream_correl_id>>

prefVars == <<user_preference>>

httpVars == <<req>>

gateVars == <<mkt_status, mkt_interrupt, gate_pc, gate_eval, mf_pc, mf_work>>

symVars == <<sym_parts, sym_in, sym_out, sub_args>>

\* Everything the token lifecycle does not touch, and everything the stream
\* session does not touch.
notAuth == <<streamVars, httpVars, gateVars, symVars, prefVars>>

notStream == <<authVars, httpVars, gateVars, symVars, prefVars>>

notHttp == <<streamVars, gateVars, symVars, prefVars>>

notGate == <<authVars, streamVars, httpVars, symVars, prefVars>>

notSym == <<authVars, streamVars, httpVars, gateVars, prefVars>>

vars == <<now, leeway, token, token_metadata, store, issued, pc, path,
          error, store_up,
          refresh_arg, ws, ws_id, request_id, send_queue, receive_queue,
          sock_in, wire, lost, produced, arrived, consumed, send_pc, recv_pc,
          conn_pc, login_request, login_status, log, req, mkt_status,
          mkt_interrupt, gate_pc, gate_eval, mf_pc, mf_work, sym_parts,
          sym_in, sym_out, sub_args, _stream_customer_id, _stream_correl_id,
          user_preference>>

(***************************************************************************)
(* Values                                                                  *)
(***************************************************************************)
\* Python None in a place that otherwise holds a token dict
None == [access_token |-> 0, refresh_token |-> 0, expires_at |-> 0]

Tok(a, r, e) == [access_token |-> a, refresh_token |-> r, expires_at |-> e]

\* A TokenManager object: __init__(token, timestamp)
TokenManager(tok, ts) == [token |-> tok, created_timestamp |-> ts]

\* What one call has done: load outcome, refresh calls, manual re-authorizations
NoPath == [load |-> "none", refresh |-> 0, manual |-> 0]

(***************************************************************************)
(* TokenManager                                                            *)
(***************************************************************************)
\* OAuth2Token.is_expired(): the token's expires_at against time.time().
\* The comparison is the library's; its margin is the run parameter leeway.
is_expired(tok) == tok.expires_at - leeway < now

is_refresh_token_expired(tm) == now > tm.created_timestamp + RefreshDays

\* r.get(self._key) is None
StoreMissing(db) == TOKEN_KEY \notin DOMAIN db

\* Seconds in one unit of now: the stored record counts epoch seconds, the
\* datetime objects of the program are counted in days here.
DaySeconds == 86400

\* datetime.timestamp(): the datetime as a number of epoch seconds
timestamp(dt) == dt * DaySeconds

\* fromtimestamp reading the stored number as milliseconds.
fromtimestamp_milliseconds(ts) == ts \div (1000 * DaySeconds)

\* datetime.fromtimestamp(ts, tz=timezone.utc): the datetime of a number of
\* epoch seconds
fromtimestamp(ts) == ts \div DaySeconds

\* save that stamps the record with the time of the write.
save_created_now(tm) == (TOKEN_KEY :> [created_timestamp |-> timestamp(now),
                                       token |-> tm.token])

\* TokenManager.save: r.set(self._key, json.dumps(data)). The stored document
\* has the two members of data, created_timestamp as epoch seconds.
save(tm) ==
    (TOKEN_KEY :> [created_timestamp |-> timestamp(tm.created_timestamp),
                   token |-> tm.token])

\* load that restores created_timestamp but leaves self.token as it was.
load_token_unassigned(db) ==
    TokenManager(token_metadata.token,
                 fromtimestamp(db[TOKEN_KEY].created_timestamp))

\* TokenManager.load on a store that holds the key
load(db) ==
    TokenManager(db[TOKEN_KEY].token,
                 fromtimestamp(db[TOKEN_KEY].created_timestamp))

(***************************************************************************)
(* SchwabAsyncOAuth.check_authentication                                   *)
(***************************************************************************)
\* AfterLoad without the assignment of line 201: the session keeps the token
\* it had.
AfterLoad_keeps_session(t, tm, p) ==
    /\ token_metadata' = tm
    /\ token' = token
    /\ IF tm.token = None
       THEN /\ pc' = [pc EXCEPT ![t] = "raised"]
            /\ error' = [error EXCEPT ![t] = "AttributeError"]
            /\ path' = [path EXCEPT ![t] = p]
            /\ UNCHANGED refresh_arg
       ELSE IF ~is_expired(tm.token)
       THEN /\ pc' = [pc EXCEPT ![t] = "returned"]
            /\ path' = [path EXCEPT ![t] = p]
            /\ UNCHANGED <<refresh_arg, error>>
       ELSE IF ~is_refresh_token_expired(tm)
       THEN /\ pc' = [pc EXCEPT ![t] = "refresh"]
            /\ path' = [path EXCEPT ![t] = [p EXCEPT !.refresh = @ + 1]]
            /\ refresh_arg' = [refresh_arg EXCEPT ![t] = tm.token.refresh_token]
            /\ UNCHANGED error
       ELSE /\ pc' = [pc EXCEPT ![t] = "manual_expired"]
            /\ path' = [path EXCEPT ![t] = [p EXCEPT !.manual = @ + 1]]
            /\ UNCHANGED <<refresh_arg, error>>

\* Lines 201-222, entered with the TokenManager tm that is current after the
\* load or the manual re-authorization, and the history p of this call.
AfterLoad(t, tm, p) ==
    /\ token_metadata' = tm
    /\ token' = tm.token
    /\ IF tm.token = None
       THEN \* None has no is_expired(): AttributeError reaches the caller
            /\ pc' = [pc EXCEPT ![t] = "raised"]
            /\ error' = [error EXCEPT ![t] = "AttributeError"]
            /\ path' = [path EXCEPT ![t] = p]
            /\ UNCHANGED refresh_arg
       ELSE IF ~is_expired(tm.token)
       THEN /\ pc' = [pc EXCEPT ![t] = "returned"]
            /\ path' = [path EXCEPT ![t] = p]
            /\ UNCHANGED <<refresh_arg, error>>
       ELSE IF ~is_refresh_token_expired(tm)
       THEN \* await self.refresh_token(...): the request is on its way
            /\ pc' = [pc EXCEPT ![t] = "refresh"]
            /\ path' = [path EXCEPT ![t] = [p EXCEPT !.refresh = @ + 1]]
            /\ refresh_arg' = [refresh_arg EXCEPT ![t] = tm.token.refresh_token]
            /\ UNCHANGED error
       ELSE \* await self.manual_authentication(), line 222
            /\ pc' = [pc EXCEPT ![t] = "manual_expired"]
            /\ path' = [path EXCEPT ![t] = [p EXCEPT !.manual = @ + 1]]
            /\ UNCHANGED <<refresh_arg, error>>

\* check_authentication_call taking a store that does not answer for a store
\* that holds no record.
check_authentication_call_unreachable_as_missing(t) ==
    /\ pc[t] = "idle"
    /\ IF token = None \/ is_expired(token)
       THEN IF ~store_up \/ StoreMissing(store)
            THEN /\ pc' = [pc EXCEPT ![t] = "manual_load"]
                 /\ path' = [path EXCEPT ![t] =
                                [NoPath EXCEPT !.load = "miss", !.manual = 1]]
                 /\ UNCHANGED <<token, token_metadata, refresh_arg, error>>
            ELSE AfterLoad(t, load(store), [NoPath EXCEPT !.load = "ok"])
       ELSE AfterLoad(t, token_metadata, NoPath)
    /\ UNCHANGED <<now, leeway, store, issued, store_up>>

\* check_authentication_call loading from the store whatever the credential
\* in memory is.
check_authentication_call_always_loads(t) ==
    /\ pc[t] = "idle"
    /\ IF ~store_up
       THEN /\ pc' = [pc EXCEPT ![t] = "raised"]
            /\ error' = [error EXCEPT ![t] = "store"]
            /\ path' = [path EXCEPT ![t] =
                           [NoPath EXCEPT !.load = "unreachable"]]
            /\ UNCHANGED <<token, token_metadata, refresh_arg>>
       ELSE IF StoreMissing(store)
       THEN /\ pc' = [pc EXCEPT ![t] = "manual_load"]
            /\ path' = [path EXCEPT ![t] =
                           [NoPath EXCEPT !.load = "miss", !.manual = 1]]
            /\ UNCHANGED <<token, token_metadata, refresh_arg, error>>
       ELSE AfterLoad(t, load(store), [NoPath EXCEPT !.load = "ok"])
    /\ UNCHANGED <<now, leeway, store, issued, store_up>>

\* check_authentication up to its first suspension, as the caller t runs it.
\* connect_db() returns a client object and never None, so an unreachable
\* store shows in r.get(), whose connection error is neither the TypeError
\* of line 196 nor the ValueError of line 198.
check_authentication_call(t) ==
    /\ pc[t] = "idle"
    /\ IF token = None \/ is_expired(token)
       THEN IF ~store_up
            THEN /\ pc' = [pc EXCEPT ![t] = "raised"]
                 /\ error' = [error EXCEPT ![t] = "store"]
                 /\ path' = [path EXCEPT ![t] =
                                [NoPath EXCEPT !.load = "unreachable"]]
                 /\ UNCHANGED <<token, token_metadata, refresh_arg>>
            ELSE IF StoreMissing(store)
            THEN \* load() raises TypeError: manual_authentication, line 197,
                 \* runs up to the await inside fetch_token
                 /\ pc' = [pc EXCEPT ![t] = "manual_load"]
                 /\ path' = [path EXCEPT ![t] =
                                [NoPath EXCEPT !.load = "miss", !.manual = 1]]
                 /\ UNCHANGED <<token, token_metadata, refresh_arg, error>>
            ELSE AfterLoad(t, load(store), [NoPath EXCEPT !.load = "ok"])
       ELSE AfterLoad(t, token_metadata, NoPath)
    /\ UNCHANGED <<now, leeway, store, issued, store_up>>

\* A caller enters check_authentication and runs to its first suspension.
check_authentication(t) ==
    /\ check_authentication_call(t)
    /\ UNCHANGED notAuth

\* refresh_token_returns without the save() of line 216.
refresh_token_returns_unsaved(t) ==
    /\ pc[t] = "refresh"
    /\ UNCHANGED notAuth
    /\ issued < MaxIssued
    /\ LET new == Tok(issued + 1, refresh_arg[t], now + ExpiresIn)
       IN /\ token' = new
          /\ token_metadata' = [token_metadata EXCEPT !.token = new]
    /\ issued' = issued + 1
    /\ pc' = [pc EXCEPT ![t] = "returned"]
    /\ UNCHANGED <<now, leeway, store, path, refresh_arg, error, store_up>>

\* The provider answers the refresh request with a new access token.
refresh_token_returns(t) ==
    /\ pc[t] = "refresh"
    /\ UNCHANGED notAuth
    /\ issued < MaxIssued
    /\ LET new == Tok(issued + 1, refresh_arg[t], now + ExpiresIn)
           tm == [token_metadata EXCEPT !.token = new]
       IN /\ token' = new
          /\ token_metadata' = tm
          /\ IF store_up
             THEN /\ store' = save(tm)
                  /\ pc' = [pc EXCEPT ![t] = "returned"]
                  /\ UNCHANGED error
             ELSE \* save() raises: logged and re-raised, lines 217-219
                  /\ pc' = [pc EXCEPT ![t] = "raised"]
                  /\ error' = [error EXCEPT ![t] = "store"]
                  /\ UNCHANGED store
    /\ issued' = issued + 1
    /\ UNCHANGED <<now, leeway, path, refresh_arg, store_up>>

\* refresh_token_raises dropping the session's token with the failed call.
refresh_token_raises_clears_session(t) ==
    /\ pc[t] = "refresh"
    /\ UNCHANGED notAuth
    /\ token' = None
    /\ pc' = [pc EXCEPT ![t] = "raised"]
    /\ error' = [error EXCEPT ![t] = "refresh_token"]
    /\ UNCHANGED <<now, leeway, token_metadata, store, issued, path,
                   refresh_arg, store_up>>

\* refresh_token_raises falling back to manual re-authorization.
refresh_token_raises_falls_back(t) ==
    /\ pc[t] = "refresh"
    /\ UNCHANGED notAuth
    /\ pc' = [pc EXCEPT ![t] = "manual_expired"]
    /\ path' = [path EXCEPT ![t].manual = @ + 1]
    /\ UNCHANGED <<now, leeway, token, token_metadata, store, issued,
                   refresh_arg, error, store_up>>

\* The refresh request fails: logged and re-raised, lines 217-219.
refresh_token_raises(t) ==
    /\ pc[t] = "refresh"
    /\ UNCHANGED notAuth
    /\ pc' = [pc EXCEPT ![t] = "raised"]
    /\ error' = [error EXCEPT ![t] = "refresh_token"]
    /\ UNCHANGED <<now, leeway, token, token_metadata, store, issued, path,
                   refresh_arg, store_up>>

\* manual_authentication_returns handing over after the assignment of line
\* 177: the session has the new token, the token manager and the store have
\* not.
manual_authentication_returns_session_only(t) ==
    /\ pc[t] \in {"manual_load", "manual_expired"}
    /\ UNCHANGED notAuth
    /\ issued < MaxIssued
    /\ token' = Tok(issued + 1, issued + 1, now + ExpiresIn)
    /\ issued' = issued + 1
    /\ pc' = [pc EXCEPT ![t] = "returned"]
    /\ UNCHANGED <<now, leeway, token_metadata, store, path, refresh_arg,
                   error, store_up>>

\* manual_authentication_returns without the save() of line 181.
manual_authentication_returns_unsaved(t) ==
    /\ pc[t] \in {"manual_load", "manual_expired"}
    /\ UNCHANGED notAuth
    /\ issued < MaxIssued
    /\ LET new == Tok(issued + 1, issued + 1, now + ExpiresIn)
           tm == TokenManager(new, now)
       IN IF pc[t] = "manual_load"
          THEN AfterLoad(t, tm, path[t])
          ELSE /\ token' = new
               /\ token_metadata' = tm
               /\ pc' = [pc EXCEPT ![t] = "returned"]
               /\ UNCHANGED <<path, refresh_arg, error>>
    /\ issued' = issued + 1
    /\ UNCHANGED <<now, leeway, store, store_up>>

\* manual_authentication after fetch_token has returned: lines 177-181,
\* then back in check_authentication.
manual_authentication_returns(t) ==
    /\ pc[t] \in {"manual_load", "manual_expired"}
    /\ UNCHANGED notAuth
    /\ issued < MaxIssued
    /\ LET new == Tok(issued + 1, issued + 1, now + ExpiresIn)
           tm == TokenManager(new, now)
       IN IF ~store_up
          THEN \* save() raises out of manual_authentication
               /\ token' = new
               /\ token_metadata' = tm
               /\ pc' = [pc EXCEPT ![t] = "raised"]
               /\ error' = [error EXCEPT ![t] = "store"]
               /\ UNCHANGED <<store, path, refresh_arg>>
          ELSE /\ store' = save(tm)
               /\ IF pc[t] = "manual_load"
                  THEN AfterLoad(t, tm, path[t])
                  ELSE /\ token' = new
                       /\ token_metadata' = tm
                       /\ pc' = [pc EXCEPT ![t] = "returned"]
                       /\ UNCHANGED <<path, refresh_arg, error>>
    /\ issued' = issued + 1
    /\ UNCHANGED <<now, leeway, store_up>>

\* fetch_token fails inside manual_authentication: the error reaches the caller.
manual_authentication_raises(t) ==
    /\ pc[t] \in {"manual_load", "manual_expired"}
    /\ UNCHANGED notAuth
    /\ pc' = [pc EXCEPT ![t] = "raised"]
    /\ error' = [error EXCEPT ![t] = "fetch_token"]
    /\ UNCHANGED <<now, leeway, token, token_metadata, store, issued, path,
                   refresh_arg, store_up>>

\* The caller is ready to call check_authentication again.
NextCall(t) ==
    /\ pc[t] \in {"returned", "raised"}
    /\ UNCHANGED notAuth
    /\ pc' = [pc EXCEPT ![t] = "idle"]
    /\ path' = [path EXCEPT ![t] = NoPath]
    /\ refresh_arg' = [refresh_arg EXCEPT ![t] = 0]
    /\ error' = [error EXCEPT ![t] = "none"]
    /\ UNCHANGED <<now, leeway, token, token_metadata, store, issued, store_up>>

\* Time passes.
Tick ==
    /\ now < StartNow + MaxTicks
    /\ UNCHANGED notAuth
    /\ now' = now + 1
    /\ UNCHANGED <<leeway, token, token_metadata, store, issued, pc, path,
                   refresh_arg, error, store_up>>

\* The store stops answering, or answers again.
StoreFlips ==
    /\ store_up' = ~store_up
    /\ UNCHANGED notAuth
    /\ UNCHANGED <<now, leeway, token, token_metadata, store, issued, pc, path,
                   refresh_arg, error>>


(***************************************************************************)
(* CustomSocket and StreamClient                                           *)
(***************************************************************************)
Conns == 1..MaxConnects     \* connect() calls, numbered in the order they start
Loops == 1..MaxConnects     \* sender/receiver pairs: pair k serves from socket k on

\* What the server can send: a login response with code 0, one with another
\* code, an empty JSON object, text that is not JSON, and a JSON object
\* without the response/content/code keys.
Bodies == {"code0", "code3", "empty", "malformed", "nokey"}

\* The request dict of request_format / subscribe_service. wrapped tells
\* whether it was put inside {"requests": [request]} before produce().
Request(service, command, id, wrapped) ==
    [service |-> service, requestid |-> id, command |-> command,
     wrapped |-> wrapped]

NoRequest == Request("", "", -1, FALSE)

\* The parameters dict of a subscription
Parameters(keys, fields) == [keys |-> keys, fields |-> fields]

\* The keys _init_login_params reads from the streamerInfo entry, in the
\* order of its assignments
StreamerInfoKeys ==
    <<"schwabClientCustomerId", "schwabClientChannel", "schwabClientCorrelId",
      "schwabClientFunctionId", "streamerSocketUrl">>

\* A streamerInfo entry with every identifier
StreamerInfo ==
    [schwabClientCustomerId |-> "customer", schwabClientChannel |-> "channel",
     schwabClientCorrelId |-> "correl", schwabClientFunctionId |-> "function",
     streamerSocketUrl |-> "wss"]

\* The streamerInfo entries a client can be built with: any of the
\* identifiers may be absent.
Preferences ==
    {[k \in keys |-> StreamerInfo[k]] :
        keys \in SUBSET {StreamerInfoKeys[i] : i \in DOMAIN StreamerInfoKeys}}

\* The keys the try block of _init_login_params gets through before the first
\* KeyError
assigned(info) ==
    {StreamerInfoKeys[i] :
        i \in {j \in DOMAIN StreamerInfoKeys :
                  \A k \in 1..j : StreamerInfoKeys[k] \in DOMAIN info}}

\* _init_login_params assigning every identifier the entry has, whatever
\* comes before it.
_init_login_params_every_key(info, key, before) ==
    IF key \in DOMAIN info THEN info[key] ELSE before

\* _init_login_params: the attribute read from `key` after the call, given
\* what it held before. The KeyError ends the assignments and is only logged.
_init_login_params(info, key, before) ==
    IF key \in assigned(info) THEN info[key] ELSE before

\* self._ws.closed or self._ws is None. Before the first connect self._ws is
\* the WebSocketClientProtocol class, whose closed attribute is truthy.
ws_closed == ws # "open"

\* json_loads handing on the text of a message it cannot decode.
json_loads_undecoded(body) == body

\* json.loads in consume(): the parsed document, or None when decoding fails
\* (JSONDecodeError is logged and consume falls off its end).
json_loads(body) == IF body = "malformed" THEN "None" ELSE body

\* Python truth value of what consume() returned: None and {} are falsy.
Truthy(doc) == doc \notin {"None", "empty"}

\* login_response["response"][0]["content"]["code"] == 0, or None on KeyError
status_of(doc) ==
    IF doc = "code0" THEN "True"
    ELSE IF doc = "code3" THEN "False"
    ELSE "None"

\* asyncio.Queue.get on a non-empty queue: the oldest item
queue_get(q) == Head(q)

\* asyncio.Queue.put on an unbounded queue
queue_put(q, item) == Append(q, item)

\* send_queue's count of unfinished tasks: put() in produce() adds one,
\* task_done() takes one off, and _send_msg calls it after each write that
\* succeeded (line 262) and not in its except clauses.
_unfinished_tasks == Len(produced) - Len(wire)

\* CustomSocket.produce
produce(msg) ==
    /\ send_queue' = queue_put(send_queue, msg)
    /\ produced' = Append(produced, msg)

\* connect(), line 113, when the logger is at DEBUG and an identifier is
\* missing: logger.debug(..., extra=e) is handed the KeyError where logging
\* iterates a dict, and the TypeError leaves _init_login_params and connect.
connect_log_raises(c) ==
    /\ conn_pc[c] = "idle"
    /\ \A d \in Conns : d < c => conn_pc[d] # "idle"
    /\ DOMAIN user_preference # DOMAIN StreamerInfo
    /\ UNCHANGED notStream
    /\ _stream_customer_id' =
          _init_login_params(user_preference, "schwabClientCustomerId",
                             _stream_customer_id)
    /\ _stream_correl_id' =
          _init_login_params(user_preference, "schwabClientCorrelId",
                             _stream_correl_id)
    /\ conn_pc' = [conn_pc EXCEPT ![c] = "raised"]
    /\ UNCHANGED <<ws, ws_id, request_id, send_queue, receive_queue, sock_in,
                   wire, lost, produced, arrived, consumed, send_pc, recv_pc,
                   login_request, login_status, log>>

\* connect(), lines 113-121: login parameters and request_format, then
\* ws_client.connect(self._stream_socket_url). The attribute is None until
\* _init_login_params assigns it; without a URL the call raises at once,
\* with one the coroutine waits for the connection.
connect(c) ==
    /\ conn_pc[c] = "idle"
    /\ \A d \in Conns : d < c => conn_pc[d] # "idle"
    /\ UNCHANGED notStream
    /\ _stream_customer_id' =
          _init_login_params(user_preference, "schwabClientCustomerId",
                             _stream_customer_id)
    /\ _stream_correl_id' =
          _init_login_params(user_preference, "schwabClientCorrelId",
                             _stream_correl_id)
    /\ login_request' = [login_request EXCEPT ![c] =
                            Request("ADMIN", "LOGIN", request_id, FALSE)]
    /\ request_id' = request_id + 1
    /\ LET _stream_socket_url ==
              _init_login_params(user_preference, "streamerSocketUrl", "None")
       IN conn_pc' = [conn_pc EXCEPT ![c] =
                         IF _stream_socket_url = "None" THEN "raised"
                         ELSE "connecting"]
    /\ UNCHANGED <<ws, ws_id, send_queue, receive_queue, sock_in, wire, lost,
                   produced, arrived, consumed, send_pc, recv_pc,
                   login_status, log>>

\* ws_client.connect returned: lines 121-128. The new socket replaces
\* self._ws, the two tasks are created and the login request is produced.
connect_opened(c) ==
    /\ conn_pc[c] = "connecting"
    /\ UNCHANGED notStream
    /\ ws' = "open"
    /\ ws_id' = ws_id + 1
    /\ sock_in' = <<>>
    /\ recv_pc' = [recv_pc EXCEPT ![ws_id + 1] = "check"]
    /\ send_pc' = [send_pc EXCEPT ![ws_id + 1] = "check"]
    /\ produce(login_request[c])
    /\ conn_pc' = [conn_pc EXCEPT ![c] = "login"]
    /\ UNCHANGED <<request_id, receive_queue, wire, lost, arrived, consumed,
                   login_request, login_status, log,
                   _stream_customer_id, _stream_correl_id>>

\* ws_client.connect raised: the error leaves connect().
connect_refused(c) ==
    /\ conn_pc[c] = "connecting"
    /\ UNCHANGED notStream
    /\ conn_pc' = [conn_pc EXCEPT ![c] = "raised"]
    /\ UNCHANGED <<ws, ws_id, request_id, send_queue, receive_queue, sock_in,
                   wire, lost, produced, arrived, consumed, send_pc, recv_pc,
                   login_request, login_status, log,
                   _stream_customer_id, _stream_correl_id>>

\* One round of _is_login_success: consume() returns, and either the answer
\* is falsy (sleep 0.1 and poll again) or the status is computed and connect
\* runs to its end, lines 131-134.
_is_login_success(c) ==
    /\ conn_pc[c] = "login"
    /\ UNCHANGED notStream
    /\ receive_queue # <<>>
    /\ LET msg == queue_get(receive_queue)
           doc == json_loads(msg.body)
           status == status_of(doc)
       IN /\ receive_queue' = Tail(receive_queue)
          /\ consumed' = Append(consumed, msg)
          /\ IF ~Truthy(doc)
             THEN UNCHANGED <<conn_pc, login_status, log>>
             ELSE /\ login_status' = [login_status EXCEPT ![c] = status]
                  /\ log' = [log EXCEPT ![c] =
                               IF status # "True"
                               THEN <<"LOGIN FAILED.", "LOGIN SUCCESS.">>
                               ELSE <<"LOGIN SUCCESS.">>]
                  /\ conn_pc' = [conn_pc EXCEPT ![c] = "done"]
    /\ UNCHANGED <<ws, ws_id, request_id, send_queue, sock_in, wire, lost,
                   produced, arrived, send_pc, recv_pc, login_request,
                   _stream_customer_id, _stream_correl_id>>

\* subscribe_service called with service_dict, with the whole request object:
\* what Request keeps of it, the session's identifiers and the parameters.
subscribe_service_request(service_dict) ==
    /\ request_id < MaxProduced
    /\ UNCHANGED notStream
    /\ produce(Request(service_dict.service, service_dict.command,
                       request_id, TRUE)
                 @@ [SchwabClientCustomerId |-> _stream_customer_id,
                     SchwabClientCorrelId |-> _stream_correl_id,
                     parameters |-> service_dict.parameters])
    /\ request_id' = request_id + 1
    /\ UNCHANGED <<ws, ws_id, receive_queue, sock_in, wire, lost, arrived,
                   consumed, send_pc, recv_pc, conn_pc, login_request,
                   login_status, log,
                   _stream_customer_id, _stream_correl_id>>

\* subscribe_service: the next request id, the envelope, produce().
subscribe_service ==
    /\ request_id < MaxProduced
    /\ UNCHANGED notStream
    /\ produce(Request("LEVELONE_EQUITIES", "SUBS", request_id, TRUE))
    /\ request_id' = request_id + 1
    /\ UNCHANGED <<ws, ws_id, receive_queue, sock_in, wire, lost, arrived,
                   consumed, send_pc, recv_pc, conn_pc, login_request,
                   login_status, log,
                   _stream_customer_id, _stream_correl_id>>

\* consume taking the newest queued message instead of the oldest.
consume_newest ==
    /\ receive_queue # <<>>
    /\ UNCHANGED notStream
    /\ consumed' = Append(consumed, receive_queue[Len(receive_queue)])
    /\ receive_queue' = SubSeq(receive_queue, 1, Len(receive_queue) - 1)
    /\ UNCHANGED <<ws, ws_id, request_id, send_queue, sock_in, wire, lost,
                   produced, arrived, send_pc, recv_pc, conn_pc,
                   login_request, login_status, log,
                   _stream_customer_id, _stream_correl_id>>

\* CustomSocket.consume called by the application.
consume ==
    /\ receive_queue # <<>>
    /\ UNCHANGED notStream
    /\ consumed' = Append(consumed, queue_get(receive_queue))
    /\ receive_queue' = Tail(receive_queue)
    /\ UNCHANGED <<ws, ws_id, request_id, send_queue, sock_in, wire, lost,
                   produced, arrived, send_pc, recv_pc, conn_pc,
                   login_request, login_status, log,
                   _stream_customer_id, _stream_correl_id>>


\* _send_msg_check going on to the queue whatever the socket's state.
_send_msg_check_ignores_closed(l) ==
    /\ send_pc[l] = "check"
    /\ UNCHANGED notStream
    /\ send_pc' = [send_pc EXCEPT ![l] = "get"]
    /\ UNCHANGED <<ws, ws_id, request_id, send_queue, receive_queue, sock_in,
                   wire, lost, produced, arrived, consumed, recv_pc, conn_pc,
                   login_request, login_status, log,
                   _stream_customer_id, _stream_correl_id>>
\* _send_msg_check opening the socket again when it finds it closed.
_send_msg_check_reconnects(l) ==
    /\ send_pc[l] = "check"
    /\ UNCHANGED notStream
    /\ ws' = "open"
    /\ send_pc' = [send_pc EXCEPT ![l] = IF ws_closed THEN "check" ELSE "get"]
    /\ UNCHANGED <<ws_id, request_id, send_queue, receive_queue, sock_in,
                   wire, lost, produced, arrived, consumed, recv_pc, conn_pc,
                   login_request, login_status, log,
                   _stream_customer_id, _stream_correl_id>>

\* _send_msg, lines 250-254: the liveness check at the top of the loop. On a
\* closed socket the task sleeps a second and comes back to the check.
_send_msg_check(l) ==
    /\ send_pc[l] = "check"
    /\ UNCHANGED notStream
    /\ send_pc' = [send_pc EXCEPT ![l] = IF ws_closed THEN "check" ELSE "get"]
    /\ UNCHANGED <<ws, ws_id, request_id, send_queue, receive_queue, sock_in,
                   wire, lost, produced, arrived, consumed, recv_pc, conn_pc,
                   login_request, login_status, log,
                   _stream_customer_id, _stream_correl_id>>

\* _send_msg_send taking the newest queued item instead of the oldest.
_send_msg_send_newest(l) ==
    /\ send_pc[l] = "get"
    /\ UNCHANGED notStream
    /\ send_queue # <<>>
    /\ LET msg_to_send == send_queue[Len(send_queue)]
       IN /\ send_queue' = SubSeq(send_queue, 1, Len(send_queue) - 1)
          /\ IF ws = "open"
             THEN wire' = Append(wire, msg_to_send) /\ UNCHANGED lost
             ELSE lost' = Append(lost, msg_to_send) /\ UNCHANGED wire
    /\ send_pc' = [send_pc EXCEPT ![l] = "check"]
    /\ UNCHANGED <<ws, ws_id, request_id, receive_queue, sock_in, produced,
                   arrived, consumed, recv_pc, conn_pc, login_request,
                   login_status, log,
                   _stream_customer_id, _stream_correl_id>>

\* _send_msg_send putting the item back on the queue when the write fails.
_send_msg_send_requeues(l) ==
    /\ send_pc[l] = "get"
    /\ UNCHANGED notStream
    /\ send_queue # <<>>
    /\ LET msg_to_send == queue_get(send_queue)
       IN IF ws = "open"
          THEN /\ send_queue' = Tail(send_queue)
               /\ wire' = Append(wire, msg_to_send)
               /\ UNCHANGED lost
          ELSE /\ send_queue' = queue_put(Tail(send_queue), msg_to_send)
               /\ lost' = Append(lost, msg_to_send)
               /\ UNCHANGED wire
    /\ send_pc' = [send_pc EXCEPT ![l] = "check"]
    /\ UNCHANGED <<ws, ws_id, request_id, receive_queue, sock_in, produced,
                   arrived, consumed, recv_pc, conn_pc, login_request,
                   login_status, log,
                   _stream_customer_id, _stream_correl_id>>

\* _send_msg, lines 257-262 and 271-272: the queue hands over its oldest
\* item and self._ws.send writes it, with no suspension between the two; on
\* a closed socket send raises ConnectionClosed, which is logged, and the
\* item is gone.
_send_msg_send(l) ==
    /\ send_pc[l] = "get"
    /\ UNCHANGED notStream
    /\ send_queue # <<>>
    /\ LET msg_to_send == queue_get(send_queue)
       IN /\ send_queue' = Tail(send_queue)
          /\ IF ws = "open"
             THEN wire' = Append(wire, msg_to_send) /\ UNCHANGED lost
             ELSE lost' = Append(lost, msg_to_send) /\ UNCHANGED wire
    /\ send_pc' = [send_pc EXCEPT ![l] = "check"]
    /\ UNCHANGED <<ws, ws_id, request_id, receive_queue, sock_in, produced,
                   arrived, consumed, recv_pc, conn_pc, login_request,
                   login_status, log,
                   _stream_customer_id, _stream_correl_id>>

\* _send_msg, lines 264-268: nothing was queued within self._timeout.
_send_msg_timeout(l) ==
    /\ send_pc[l] = "get"
    /\ UNCHANGED notStream
    /\ send_queue = <<>>
    /\ send_pc' = [send_pc EXCEPT ![l] = "check"]
    /\ UNCHANGED <<ws, ws_id, request_id, send_queue, receive_queue, sock_in,
                   wire, lost, produced, arrived, consumed, recv_pc, conn_pc,
                   login_request, login_status, log,
                   _stream_customer_id, _stream_correl_id>>

\* _recv_msg, lines 278-281: the liveness check at the top of the loop. On a
\* closed socket the task sleeps a second and comes back to the check.
_recv_msg_check(l) ==
    /\ recv_pc[l] = "check"
    /\ UNCHANGED notStream
    /\ recv_pc' = [recv_pc EXCEPT ![l] = IF ws_closed THEN "check" ELSE "recv"]
    /\ UNCHANGED <<ws, ws_id, request_id, send_queue, receive_queue, sock_in,
                   wire, lost, produced, arrived, consumed, send_pc, conn_pc,
                   login_request, login_status, log,
                   _stream_customer_id, _stream_correl_id>>

\* _recv_msg, lines 283-286: recv() returns the next message of the socket
\* and it is put on the receive queue.
_recv_msg_recv(l) ==
    /\ recv_pc[l] = "recv"
    /\ UNCHANGED notStream
    /\ ws = "open"
    /\ sock_in # <<>>
    /\ receive_queue' = queue_put(receive_queue, Head(sock_in))
    /\ sock_in' = Tail(sock_in)
    /\ recv_pc' = [recv_pc EXCEPT ![l] = "check"]
    /\ UNCHANGED <<ws, ws_id, request_id, send_queue, wire, lost, produced,
                   arrived, consumed, send_pc, conn_pc, login_request,
                   login_status, log,
                   _stream_customer_id, _stream_correl_id>>

\* _recv_msg_nothing letting the error of a closed socket end the task.
_recv_msg_nothing_ends(l) ==
    /\ recv_pc[l] = "recv"
    /\ UNCHANGED notStream
    /\ sock_in = <<>> \/ ws # "open"
    /\ recv_pc' = [recv_pc EXCEPT ![l] = IF ws # "open" THEN "ended"
                                         ELSE "check"]
    /\ UNCHANGED <<ws, ws_id, request_id, send_queue, receive_queue, sock_in,
                   wire, lost, produced, arrived, consumed, send_pc, conn_pc,
                   login_request, login_status, log,
                   _stream_customer_id, _stream_correl_id>>

\* _recv_msg, lines 287-296: no message within self._timeout, or recv()
\* raised on a closed socket; either way the loop goes round.
_recv_msg_nothing(l) ==
    /\ recv_pc[l] = "recv"
    /\ UNCHANGED notStream
    /\ sock_in = <<>> \/ ws # "open"
    /\ recv_pc' = [recv_pc EXCEPT ![l] = "check"]
    /\ UNCHANGED <<ws, ws_id, request_id, send_queue, receive_queue, sock_in,
                   wire, lost, produced, arrived, consumed, send_pc, conn_pc,
                   login_request, login_status, log,
                   _stream_customer_id, _stream_correl_id>>

\* The server sends a message on the open connection.
ServerSends(body) ==
    /\ ws = "open"
    /\ UNCHANGED notStream
    /\ Len(arrived) < MaxInbound
    /\ LET msg == [n |-> Len(arrived) + 1, body |-> body]
       IN /\ sock_in' = Append(sock_in, msg)
          /\ arrived' = Append(arrived, msg)
    /\ UNCHANGED <<ws, ws_id, request_id, send_queue, receive_queue, wire,
                   lost, produced, consumed, send_pc, recv_pc, conn_pc,
                   login_request, login_status, log,
                   _stream_customer_id, _stream_correl_id>>

\* The connection is closed by the server or the network.
SocketCloses ==
    /\ ws = "open"
    /\ UNCHANGED notStream
    /\ ws' = "closed"
    /\ UNCHANGED <<ws_id, request_id, send_queue, receive_queue, sock_in,
                   wire, lost, produced, arrived, consumed, send_pc, recv_pc,
                   conn_pc, login_request, login_status, log,
                   _stream_customer_id, _stream_correl_id>>

\* CustomSocket.__init__ and the attributes StreamClient.__init__ sets to
\* None
InitStreamClient ==
    /\ ws = "unset"
    /\ ws_id = 0
    /\ request_id = 0
    /\ send_queue = <<>>
    /\ receive_queue = <<>>
    /\ sock_in = <<>>
    /\ wire = <<>>
    /\ lost = <<>>
    /\ produced = <<>>
    /\ arrived = <<>>
    /\ consumed = <<>>
    /\ send_pc = [l \in Loops |-> "off"]
    /\ recv_pc = [l \in Loops |-> "off"]
    /\ conn_pc = [c \in Conns |-> "idle"]
    /\ login_request = [c \in Conns |-> NoRequest]
    /\ login_status = [c \in Conns |-> "pending"]
    /\ log = [c \in Conns |-> <<>>]
    /\ _stream_customer_id = "None"
    /\ _stream_correl_id = "None"

\* CustomSocket.__init__ and StreamClient.__init__ given a complete
\* streamerInfo entry
InitStream ==
    /\ InitStreamClient
    /\ user_preference = StreamerInfo

(***************************************************************************)
(* parse_option_string (utils.py)                                          *)
(***************************************************************************)
Digits == {"0", "1", "2", "3", "4", "5", "6", "7", "8", "9"}

\* isdigit taking the blank for a digit as well.
isdigit_or_blank(ch) == ch \in Digits \cup {" "}

\* str.isdigit on one character
isdigit(ch) == ch \in Digits

\* str.ljust(width, fillchar): pads on the right, never truncates
ljust(str, width, fillchar) ==
    IF Len(str) >= width THEN str
    ELSE str \o [k \in 1..(width - Len(str)) |-> fillchar]

\* input[a:b] on a 0-based string: the end is clamped to the length
Slice(str, a, b) == SubSeq(str, a + 1, IF b < Len(str) THEN b ELSE Len(str))

\* The while loop of lines 111-114, entered with i
RECURSIVE first_digit(_, _)
first_digit(input, i) ==
    IF i < Len(input) /\ ~isdigit(input[i + 1])
    THEN first_digit(input, i + 1)
    ELSE i

\* input[i + 6] past the end of the string
IndexError == <<"IndexError">>

\* parse_option_string taking the strike one character early, at the type.
parse_option_string_strike_early(input) ==
    LET i == first_digit(input, 0)
        symbol_root == ljust(Slice(input, 0, i), SYMBOL_WIDTH, " ")
        date_str == Slice(input, i, i + DATE_LEN)
        strike_price == ljust(Slice(input, i + TYPE_AT, Len(input)),
                              STRIKE_WIDTH, "0")
    IN IF i + TYPE_AT >= Len(input) THEN IndexError
       ELSE symbol_root \o date_str \o <<input[i + TYPE_AT + 1]>>
                \o strike_price

\* parse_option_string leaving the root as it is written.
parse_option_string_root_unpadded(input) ==
    LET i == first_digit(input, 0)
        symbol_root == Slice(input, 0, i)
        date_str == Slice(input, i, i + DATE_LEN)
        strike_price == ljust(Slice(input, i + STRIKE_AT, Len(input)),
                              STRIKE_WIDTH, "0")
    IN IF i + TYPE_AT >= Len(input) THEN IndexError
       ELSE symbol_root \o date_str \o <<input[i + TYPE_AT + 1]>>
                \o strike_price

parse_option_string(input) ==
    LET i == first_digit(input, 0)
        symbol_root == ljust(Slice(input, 0, i), SYMBOL_WIDTH, " ")
        date_str == Slice(input, i, i + DATE_LEN)
        strike_price == ljust(Slice(input, i + STRIKE_AT, Len(input)),
                              STRIKE_WIDTH, "0")
    IN IF i + TYPE_AT >= Len(input) THEN IndexError
       ELSE symbol_root \o date_str \o <<input[i + TYPE_AT + 1]>>
                \o strike_price

\* Sequences over S of length 1..n
SeqsUpTo(S, n) == UNION { [1..k -> S] : k \in 1..n }

\* The pieces of an option symbol as the caller writes it
OptionParts(root, date, type, strike) ==
    [root |-> root, date |-> date, type |-> type, strike |-> strike]

\* The symbol of the docstring and one more of that shape, a root longer than
\* its field and a strike longer than its field
GivenOptions ==
    { OptionParts(<<"A", "A", "P", "L">>, <<"2", "4", "1", "1", "1", "5">>,
                  "C", <<"0", "0", "2", "0", "0">>),
      OptionParts(<<"G", "O", "O", "G">>, <<"2", "5", "0", "1", "0", "1">>,
                  "P", <<"0", "1", "5", "0", "0">>),
      OptionParts(<<"A", "B", "C", "D", "E", "F", "G">>,
                  <<"2", "5", "0", "1", "0", "1">>, "C", <<"5">>),
      OptionParts(<<"A">>, <<"2", "4", "1", "1", "1", "5">>, "P",
                  <<"0", "0", "2", "0", "0", "0", "0", "0", "5">>) }

OptionInputs ==
    GivenOptions \cup
    { OptionParts(r, d, ty, k) :
        r \in SeqsUpTo({"A", "P"}, MaxRoot),
        d \in { <<"2", "4", "1", "1", "1", "5">>,
                <<"2", "5", "0", "1", "0", "1">> },
        ty \in {"C", "P"},
        k \in SeqsUpTo({"0", "5"}, MaxStrike) }

\* The string the caller passes for the pieces
option_string(parts) ==
    parts.root \o parts.date \o <<parts.type>> \o parts.strike

\* A caller applies parse_option_string to its input.
parse_option_string_call ==
    /\ sym_in # <<>>
    /\ sym_out = <<>>
    /\ sym_out' = parse_option_string(sym_in)
    /\ UNCHANGED <<sym_parts, sym_in, sub_args>>
    /\ UNCHANGED notSym

(***************************************************************************)
(* Subscription requests (services.py)                                     *)
(***************************************************************************)
\* ",".join(input)
RECURSIVE convert_list_to_csv_string(_)
convert_list_to_csv_string(input) ==
    IF input = <<>> THEN <<>>
    ELSE IF Len(input) = 1 THEN input[1]
    ELSE input[1] \o <<",">> \o convert_list_to_csv_string(Tail(input))

\* The characters of a field number below 100
Decimal(n) ==
    LET digit(d) == <<"0", "1", "2", "3", "4", "5", "6", "7", "8", "9">>[d + 1]
    IN IF n < 10 THEN <<digit(n)>> ELSE <<digit(n \div 10), digit(n % 10)>>

\* A Fields.ALL literal: "0,1,2,..." up to the last field number
FieldsAll(last) ==
    convert_list_to_csv_string([k \in 1..(last + 1) |-> Decimal(k - 1)])

\* fields=None
NoFields == << <<"None">> >>

ServiceDict(service, keys, fields) ==
    [service |-> service, command |-> "SUBS",
     parameters |-> Parameters(keys, fields)]

level_one_equities_sub(tickers, fields) ==
    ServiceDict("LEVELONE_EQUITIES", convert_list_to_csv_string(tickers),
                IF fields = NoFields THEN FieldsAll(EQUITY_LAST_FIELD)
                ELSE convert_list_to_csv_string(fields))

\* level_one_options_sub passing the tickers on as they are.
level_one_options_sub_unparsed(tickers, fields) ==
    ServiceDict("LEVELONE_OPTIONS", convert_list_to_csv_string(tickers),
                IF fields = NoFields THEN FieldsAll(OPTION_LAST_FIELD)
                ELSE convert_list_to_csv_string(fields))

level_one_options_sub(tickers, fields) ==
    ServiceDict("LEVELONE_OPTIONS",
                convert_list_to_csv_string(
                    [k \in 1..Len(tickers) |-> parse_option_string(tickers[k])]),
                IF fields = NoFields THEN FieldsAll(OPTION_LAST_FIELD)
                ELSE convert_list_to_csv_string(fields))

options_book(tickers, fields) ==
    ServiceDict("OPTIONS_BOOK",
                convert_list_to_csv_string(
                    [k \in 1..Len(tickers) |-> parse_option_string(tickers[k])]),
                IF fields = NoFields THEN FieldsAll(BOOK_LAST_FIELD)
                ELSE convert_list_to_csv_string(fields))

nasdaq_book(tickers, fields) ==
    ServiceDict("NASDAQ_BOOK", convert_list_to_csv_string(tickers),
                IF fields = NoFields THEN FieldsAll(BOOK_LAST_FIELD)
                ELSE convert_list_to_csv_string(fields))

SPY == <<"S", "P", "Y">>

QQQ == <<"Q", "Q", "Q">>

AAPL241115C00200 ==
    <<"A", "A", "P", "L", "2", "4", "1", "1", "1", "5", "C",
      "0", "0", "2", "0", "0">>

GOOG250101P01500 ==
    <<"G", "O", "O", "G", "2", "5", "0", "1", "0", "1", "P",
      "0", "1", "5", "0", "0">>

\* What the application subscribes with: equity symbols, option symbols and
\* the fields argument
SubArgs ==
    [tickers : {<<SPY>>, <<SPY, QQQ>>},
     options : {<<AAPL241115C00200>>, <<GOOG250101P01500, AAPL241115C00200>>},
     fields : {NoFields, << <<"0">>, <<"1">>, <<"1", "0">> >>}]

\* No input to parse_option_string yet
NoParts == OptionParts(<<>>, <<>>, "", <<>>)

\* An application that subscribes to one equity symbol and one field
OneSymbol == [tickers |-> <<SPY>>, options |-> <<>>, fields |-> << <<"0">> >>]

InitSym ==
    /\ sym_parts = NoParts
    /\ sym_in = <<>>
    /\ sym_out = <<>>
    /\ sub_args = OneSymbol

(***************************************************************************)
(* CustomCRUD (utils.py)                                                   *)
(***************************************************************************)
Verbs == {"GET", "POST", "PUT", "DELETE"}

\* Status codes the provider answers with
Statuses == {200, 401, 500}

Response(status) == [status_code |-> status]

\* Python None in a place that otherwise holds a Response
NoResponse == Response(0)

\* A caller that is in no request operation. calls counts the
\* self.session.<verb>() calls of the operation, checks its
\* check_authentication() calls (history).
NoReq == [pc |-> "idle", verb |-> "", calls |-> 0, checks |-> 0,
          rejected |-> FALSE, response |-> NoResponse, result |-> NoResponse]

\* httpx Response.raise_for_status(): TRUE when it raises HTTPStatusError,
\* which it does for every status outside 2xx
raise_for_status(response) == response.status_code \notin 200..299

\* _check_response that hands back whatever arrived.
_check_response_unchecked(response) == response

\* The HTTPStatusError is logged and the function falls off its end.
_check_response(response) ==
    IF raise_for_status(response) THEN NoResponse ELSE response

\* try: resp = await self.session.<verb>(...): the call is on its way
session_request(t, verb) ==
    /\ req[t].pc = "idle"
    /\ pc[t] = "idle"
    /\ req' = [req EXCEPT ![t] =
                  [NoReq EXCEPT !.pc = "awaiting", !.verb = verb, !.calls = 1]]
    /\ UNCHANGED authVars
    /\ UNCHANGED notHttp

_get_request(t) == session_request(t, "GET")

_post_request(t) == session_request(t, "POST")

_put_request(t) == session_request(t, "PUT")

_delete_request(t) == session_request(t, "DELETE")

\* The session call returned a response: return self._check_response(resp)
request_response(t, status) ==
    /\ req[t].pc = "awaiting"
    /\ req' = [req EXCEPT ![t].pc = "returned",
                          ![t].response = Response(status),
                          ![t].result = _check_response(Response(status))]
    /\ UNCHANGED authVars
    /\ UNCHANGED notHttp

\* The session call raised InvalidTokenError: check_authentication is awaited
\* and runs to its first suspension.
request_invalid_token(t) ==
    /\ req[t].pc = "awaiting"
    /\ check_authentication_call(t)
    /\ req' = [req EXCEPT ![t].pc = "auth", ![t].rejected = TRUE,
                          ![t].checks = @ + 1]
    /\ UNCHANGED notHttp

\* The session call raised anything else: the error leaves the operation.
request_error(t) ==
    /\ req[t].pc = "awaiting"
    /\ req' = [req EXCEPT ![t].pc = "raised"]
    /\ UNCHANGED authVars
    /\ UNCHANGED notHttp

\* request_authenticated issuing the request a second time.
request_authenticated_retry(t) ==
    /\ req[t].pc = "auth"
    /\ pc[t] \in {"returned", "raised"}
    /\ req' = [req EXCEPT ![t].pc = IF pc[t] = "raised" THEN "raised"
                                    ELSE "awaiting",
                          ![t].calls = IF pc[t] = "raised" THEN @ ELSE @ + 1]
    /\ pc' = [pc EXCEPT ![t] = "idle"]
    /\ path' = [path EXCEPT ![t] = NoPath]
    /\ refresh_arg' = [refresh_arg EXCEPT ![t] = 0]
    /\ error' = [error EXCEPT ![t] = "none"]
    /\ UNCHANGED <<now, leeway, token, token_metadata, store, issued, store_up>>
    /\ UNCHANGED notHttp

\* check_authentication is over: when it returned the operation falls off its
\* end and returns None, when it raised the error leaves the operation.
request_authenticated(t) ==
    /\ req[t].pc = "auth"
    /\ pc[t] \in {"returned", "raised"}
    /\ req' = [req EXCEPT ![t].pc = pc[t]]
    /\ pc' = [pc EXCEPT ![t] = "idle"]
    /\ path' = [path EXCEPT ![t] = NoPath]
    /\ refresh_arg' = [refresh_arg EXCEPT ![t] = 0]
    /\ error' = [error EXCEPT ![t] = "none"]
    /\ UNCHANGED <<now, leeway, token, token_metadata, store, issued, store_up>>
    /\ UNCHANGED notHttp

\* The caller has the outcome and is ready for its next operation.
request_done(t) ==
    /\ req[t].pc \in {"returned", "raised"}
    /\ req' = [req EXCEPT ![t] = NoReq]
    /\ UNCHANGED authVars
    /\ UNCHANGED notHttp

InitHttp == req = [t \in Tasks |-> NoReq]

(***************************************************************************)
(* Market session gate (app.py)                                            *)
(***************************************************************************)
\* Python None in a place that otherwise holds a datetime
NoTime == -1

\* openTime and closeTime of the shared dict
Window(o, c) == [openTime |-> o, closeTime |-> c]

\* is_market_open() on a day the market is closed: both times are None
ClosedDay == Window(NoTime, NoTime)

Times == StartNow..(StartNow + MaxTicks)

\* What is_market_open() can return
Windows ==
    { w \in { Window(o, c) : o \in Times, c \in Times } :
        w.openTime < w.closeTime } \cup {ClosedDay}

NoEval == [at |-> NoTime, openTime |-> NoTime, closeTime |-> NoTime]

\* One pass of the loop of market_status_interrupt, lines 76-79. A None in
\* the window makes the comparison raise TypeError, which is caught outside
\* the loop: the task logs and ends.
market_status_interrupt ==
    /\ gate_pc = "running"
    /\ IF mkt_status.openTime = NoTime \/ mkt_status.closeTime = NoTime
       THEN /\ gate_pc' = "ended"
            /\ UNCHANGED <<mkt_interrupt, gate_eval>>
       ELSE LET mkt_open == mkt_status.openTime <= now
                                /\ now <= mkt_status.closeTime
            IN /\ mkt_interrupt' = mkt_open
               /\ gate_eval' = [at |-> now, openTime |-> mkt_status.openTime,
                                closeTime |-> mkt_status.closeTime]
               /\ UNCHANGED gate_pc
    /\ UNCHANGED <<mkt_status, mf_pc, mf_work>>
    /\ UNCHANGED notGate

\* One pass of the loop of update_market_times after is_market_open() has
\* returned w. A failed request is logged and changes nothing.
update_market_times(w) ==
    /\ mkt_status' = w
    /\ UNCHANGED <<mkt_interrupt, gate_pc, gate_eval, mf_pc, mf_work>>
    /\ UNCHANGED notGate

\* market_function: mkt_interrupt.wait() returns and the first round of
\* requests is started, lines 147-156.
market_function_start ==
    /\ mf_pc = "waiting"
    /\ mkt_interrupt
    /\ mf_pc' = "polling"
    /\ mf_work' = Append(mf_work, mkt_interrupt)
    /\ UNCHANGED <<mkt_status, mkt_interrupt, gate_pc, gate_eval>>
    /\ UNCHANGED notGate

\* market_function: the sleep of line 156 is over and the next round of
\* requests is started.
market_function_poll ==
    /\ mf_pc = "polling"
    /\ Len(mf_work) < MaxRounds
    /\ mf_work' = Append(mf_work, mkt_interrupt)
    /\ UNCHANGED <<mkt_status, mkt_interrupt, gate_pc, gate_eval, mf_pc>>
    /\ UNCHANGED notGate

\* main(), lines 179-200, on a day the market is closed
InitGate ==
    /\ mkt_status = ClosedDay
    /\ mkt_interrupt = FALSE
    /\ gate_pc = "running"
    /\ gate_eval = NoEval
    /\ mf_pc = "waiting"
    /\ mf_work = <<>>

\* Records a previous run of the program may have left in the store
StoredRecords ==
    { [created_timestamp |-> timestamp(c), token |-> Tok(1, 1, e)] :
        c \in {StartNow - RefreshDays - 1, StartNow - RefreshDays, StartNow - 1},
        e \in {StartNow - 1, StartNow, StartNow + ExpiresIn} }

\* The credential of a running session: still valid, access-expired with a
\* valid refresh token, and expired altogether
SessionRecords ==
    { [created_timestamp |-> timestamp(StartNow - 1),
       token |-> Tok(1, 1, StartNow + 1)],
      [created_timestamp |-> timestamp(StartNow - 1),
       token |-> Tok(1, 1, StartNow - 1)],
      [created_timestamp |-> timestamp(StartNow - RefreshDays - 1),
       token |-> Tok(1, 1, StartNow - 1)] }

InitAuth ==
    /\ now = StartNow
    /\ leeway \in 0..MaxLeeway
    /\ token = None
    /\ token_metadata = TokenManager(None, StartNow)
    /\ store \in {<<>>} \cup { (TOKEN_KEY :> r) : r \in StoredRecords }
    /\ issued = IF StoreMissing(store) THEN 0 ELSE 1
    /\ pc = [t \in Tasks |-> "idle"]
    /\ path = [t \in Tasks |-> NoPath]
    /\ refresh_arg = [t \in Tasks |-> 0]
    /\ error = [t \in Tasks |-> "none"]
    /\ store_up = TRUE
    /\ InitStream
    /\ InitHttp
    /\ InitGate
    /\ InitSym

NextAuth ==
    \/ \E t \in Tasks : check_authentication(t)
    \/ \E t \in Tasks : refresh_token_returns(t)
    \/ \E t \in Tasks : refresh_token_raises(t)
    \/ \E t \in Tasks : manual_authentication_returns(t)
    \/ \E t \in Tasks : manual_authentication_raises(t)
    \/ \E t \in Tasks : NextCall(t)
    \/ Tick

\* The token lifecycle over a store that answers throughout.
SpecAuth == InitAuth /\ [][NextAuth]_vars

\* A client that starts over a store that can stop answering.
InitStore ==
    /\ now = StartNow
    /\ leeway = 0
    /\ token = None
    /\ token_metadata = TokenManager(None, StartNow)
    /\ store \in {<<>>} \cup { (TOKEN_KEY :> r) : r \in SessionRecords }
    /\ issued = IF StoreMissing(store) THEN 0 ELSE 1
    /\ pc = [t \in Tasks |-> "idle"]
    /\ path = [t \in Tasks |-> NoPath]
    /\ refresh_arg = [t \in Tasks |-> 0]
    /\ error = [t \in Tasks |-> "none"]
    /\ store_up = TRUE
    /\ InitStream
    /\ InitHttp
    /\ InitGate
    /\ InitSym

NextStore ==
    \/ NextAuth
    \/ StoreFlips

SpecStore == InitStore /\ [][NextStore]_vars

\* The stream session of a client that holds a valid token.
InitStreamSession ==
    /\ now = StartNow
    /\ leeway = 0
    /\ token = Tok(1, 1, StartNow + ExpiresIn)
    /\ token_metadata = TokenManager(token, StartNow)
    /\ store = save(token_metadata)
    /\ issued = 1
    /\ pc = [t \in Tasks |-> "idle"]
    /\ path = [t \in Tasks |-> NoPath]
    /\ refresh_arg = [t \in Tasks |-> 0]
    /\ error = [t \in Tasks |-> "none"]
    /\ store_up = TRUE
    /\ InitStream
    /\ InitHttp
    /\ InitGate
    /\ InitSym

\* The outbound half of the session: connect(), the subscription calls, the
\* sender tasks and the socket. The receiver tasks, consume() and the login
\* poll write none of the variables these actions read.
NextOutbound ==
    \/ \E c \in Conns : connect(c)
    \/ \E c \in Conns : connect_opened(c)
    \/ \E c \in Conns : connect_refused(c)
    \/ subscribe_service
    \/ \E l \in Loops : _send_msg_check(l)
    \/ \E l \in Loops : _send_msg_send(l)
    \/ \E l \in Loops : _send_msg_timeout(l)
    \/ SocketCloses

SpecOutbound == InitStreamSession /\ [][NextOutbound]_vars

\* The inbound half of the session: connect() with its login poll, the
\* receiver tasks, consume(), the server and the socket. The sender tasks and
\* the subscription calls write none of the variables these actions read
\* except request_id, which only numbers the login request here.
NextInbound ==
    \/ \E c \in Conns : connect(c)
    \/ \E c \in Conns : connect_opened(c)
    \/ \E c \in Conns : connect_refused(c)
    \/ \E c \in Conns : _is_login_success(c)
    \/ consume
    \/ \E l \in Loops : _recv_msg_check(l)
    \/ \E l \in Loops : _recv_msg_recv(l)
    \/ \E l \in Loops : _recv_msg_nothing(l)
    \/ \E b \in Bodies : ServerSends(b)
    \/ SocketCloses

SpecInbound == InitStreamSession /\ [][NextInbound]_vars

\* The inbound half of the session with a server that sends malformed text,
\* the empty document and the login answer.
NextMalformed ==
    \/ \E c \in Conns : connect(c)
    \/ \E c \in Conns : connect_opened(c)
    \/ \E c \in Conns : connect_refused(c)
    \/ \E c \in Conns : _is_login_success(c)
    \/ consume
    \/ \E l \in Loops : _recv_msg_check(l)
    \/ \E l \in Loops : _recv_msg_recv(l)
    \/ \E l \in Loops : _recv_msg_nothing(l)
    \/ \E b \in {"malformed", "empty", "code0"} : ServerSends(b)
    \/ SocketCloses

SpecMalformed == InitStreamSession /\ [][NextMalformed]_vars

\* The login handshake on its own: connect() with its login poll, the receiver
\* tasks, the server and the socket. The application takes nothing from the
\* receive queue, so every message consumed was taken by a login poll.
NextLogin ==
    \/ \E c \in Conns : connect(c)
    \/ \E c \in Conns : connect_opened(c)
    \/ \E c \in Conns : connect_refused(c)
    \/ \E c \in Conns : _is_login_success(c)
    \/ \E l \in Loops : _recv_msg_check(l)
    \/ \E l \in Loops : _recv_msg_recv(l)
    \/ \E l \in Loops : _recv_msg_nothing(l)
    \/ \E b \in Bodies : ServerSends(b)
    \/ SocketCloses

SpecLogin == InitStreamSession /\ [][NextLogin]_vars

\* The login handshake of a client built with any streamerInfo entry, whole
\* or lacking identifiers, with the logger at any level.
InitPreference ==
    /\ now = StartNow
    /\ leeway = 0
    /\ token = Tok(1, 1, StartNow + ExpiresIn)
    /\ token_metadata = TokenManager(token, StartNow)
    /\ store = save(token_metadata)
    /\ issued = 1
    /\ pc = [t \in Tasks |-> "idle"]
    /\ path = [t \in Tasks |-> NoPath]
    /\ refresh_arg = [t \in Tasks |-> 0]
    /\ error = [t \in Tasks |-> "none"]
    /\ store_up = TRUE
    /\ InitStreamClient
    /\ user_preference \in Preferences
    /\ InitHttp
    /\ InitGate
    /\ InitSym

NextPreference ==
    \/ \E c \in Conns : connect_log_raises(c)
    \/ \E c \in Conns : connect(c)
    \/ \E c \in Conns : connect_opened(c)
    \/ \E c \in Conns : connect_refused(c)
    \/ \E c \in Conns : _is_login_success(c)
    \/ \E l \in Loops : _recv_msg_check(l)
    \/ \E l \in Loops : _recv_msg_recv(l)
    \/ \E l \in Loops : _recv_msg_nothing(l)
    \/ \E b \in Bodies : ServerSends(b)
    \/ SocketCloses

SpecPreference == InitPreference /\ [][NextPreference]_vars

\* Everything that runs on the socket at once: connect() producing its
\* login request, the sender and the receiver tasks, consume(), the server
\* and the socket. The server sends one message and the login answer is left
\* unread.
NextSocket ==
    \/ \E c \in Conns : connect(c)
    \/ \E c \in Conns : connect_opened(c)
    \/ \E c \in Conns : connect_refused(c)
    \/ consume
    \/ \E l \in Loops : _send_msg_check(l)
    \/ \E l \in Loops : _send_msg_send(l)
    \/ \E l \in Loops : _send_msg_timeout(l)
    \/ \E l \in Loops : _recv_msg_check(l)
    \/ \E l \in Loops : _recv_msg_recv(l)
    \/ \E l \in Loops : _recv_msg_nothing(l)
    \/ arrived = <<>> /\ ServerSends("empty")
    \/ SocketCloses

SpecSocket == InitStreamSession /\ [][NextSocket]_vars

\* A client that holds a valid token and is in no call.
InitToken ==
    /\ now = StartNow
    /\ leeway = 0
    /\ token = Tok(1, 1, StartNow + ExpiresIn)
    /\ token_metadata = TokenManager(token, StartNow)
    /\ store = save(token_metadata)
    /\ issued = 1
    /\ pc = [t \in Tasks |-> "idle"]
    /\ path = [t \in Tasks |-> NoPath]
    /\ refresh_arg = [t \in Tasks |-> 0]
    /\ error = [t \in Tasks |-> "none"]
    /\ store_up = TRUE

\* The HTTP client of a session that loaded the stored credential when it
\* started, some time ago.
InitHttpSession ==
    /\ now = StartNow
    /\ leeway = 0
    /\ store \in { (TOKEN_KEY :> r) : r \in SessionRecords }
    /\ token_metadata = load(store)
    /\ token = token_metadata.token
    /\ issued = 1
    /\ pc = [t \in Tasks |-> "idle"]
    /\ path = [t \in Tasks |-> NoPath]
    /\ refresh_arg = [t \in Tasks |-> 0]
    /\ error = [t \in Tasks |-> "none"]
    /\ store_up = TRUE
    /\ InitStream
    /\ InitHttp
    /\ InitGate
    /\ InitSym

\* Request operations of the callers, with the check_authentication calls
\* they make and what those wait for. The clock stands still: the session
\* starts with a credential of each kind check_authentication tells apart.
NextHttp ==
    \/ \E t \in Tasks : _get_request(t)
    \/ \E t \in Tasks : _post_request(t)
    \/ \E t \in Tasks : _put_request(t)
    \/ \E t \in Tasks : _delete_request(t)
    \/ \E t \in Tasks, status \in Statuses : request_response(t, status)
    \/ \E t \in Tasks : request_invalid_token(t)
    \/ \E t \in Tasks : request_error(t)
    \/ \E t \in Tasks : request_authenticated(t)
    \/ \E t \in Tasks : request_done(t)
    \/ \E t \in Tasks : refresh_token_returns(t)
    \/ \E t \in Tasks : refresh_token_raises(t)
    \/ \E t \in Tasks : manual_authentication_returns(t)
    \/ \E t \in Tasks : manual_authentication_raises(t)

SpecHttp == InitHttpSession /\ [][NextHttp]_vars

\* main() after is_market_open() has returned the window of the day.
InitGateSession ==
    /\ InitToken
    /\ InitStream
    /\ InitHttp
    /\ InitSym
    /\ mkt_status \in Windows
    /\ mkt_interrupt = FALSE
    /\ gate_pc = "running"
    /\ gate_eval = NoEval
    /\ mf_pc = "waiting"
    /\ mf_work = <<>>

\* The two periodic tasks, market_function and the clock.
NextGate ==
    \/ market_status_interrupt
    \/ \E w \in Windows : update_market_times(w)
    \/ market_function_start
    \/ market_function_poll
    \/ Tick

SpecGate == InitGateSession /\ [][NextGate]_vars

\* A session that subscribes to the four services with its symbols and fields.
InitSubscribe ==
    /\ InitToken
    /\ InitStream
    /\ InitHttp
    /\ InitGate
    /\ sym_parts = NoParts
    /\ sym_in = <<>>
    /\ sym_out = <<>>
    /\ sub_args \in SubArgs

\* connect() and the subscription calls. Nothing is sent or received: the
\* sender and receiver tasks write none of the variables these actions read.
NextSubscribe ==
    \/ \E c \in Conns : connect(c)
    \/ \E c \in Conns : connect_opened(c)
    \/ \E c \in Conns : connect_refused(c)
    \/ subscribe_service_request(
           level_one_equities_sub(sub_args.tickers, sub_args.fields))
    \/ subscribe_service_request(
           level_one_options_sub(sub_args.options, sub_args.fields))
    \/ subscribe_service_request(
           options_book(sub_args.options, sub_args.fields))
    \/ subscribe_service_request(
           nasdaq_book(sub_args.tickers, sub_args.fields))

SpecSubscribe == InitSubscribe /\ [][NextSubscribe]_vars

\* parse_option_string applied to one input.
InitSymbol ==
    /\ InitToken
    /\ InitStream
    /\ InitHttp
    /\ InitGate
    /\ sym_parts \in OptionInputs
    /\ sym_in = option_string(sym_parts)
    /\ sym_out = <<>>
    /\ sub_args = OneSymbol

\* A caller applies parse_option_string to what it returned before.
parse_option_string_again ==
    /\ sym_out # <<>>
    /\ sym_out # IndexError
    /\ sym_in # sym_out
    /\ sym_in' = sym_out
    /\ sym_out' = parse_option_string(sym_out)
    /\ UNCHANGED <<sym_parts, sub_args>>
    /\ UNCHANGED notSym

NextSymbol == parse_option_string_call

SpecSymbol == InitSymbol /\ [][NextSymbol]_vars

\* The transform applied to an input and then to its own output.
NextReparse ==
    \/ parse_option_string_call
    \/ parse_option_string_again

SpecReparse == InitSymbol /\ [][NextReparse]_vars

(***************************************************************************)
(* Properties                                                              *)
(***************************************************************************)
Range(seq) == { seq[i] : i \in DOMAIN seq }

\* a is b with some elements left out, the rest in the same order
RECURSIVE IsSubSeq(_, _)
IsSubSeq(a, b) ==
    IF a = <<>> THEN TRUE
    ELSE IF b = <<>> THEN FALSE
    ELSE IF Head(a) = Head(b) THEN IsSubSeq(Tail(a), Tail(b))
    ELSE IsSubSeq(a, Tail(b))

\* C1: check_authentication is single-flight: callers that overlap while the
\* credential is access-expired and refresh-valid share one refresh call, so
\* no two callers are ever waiting on a refresh call of their own.
C1_SingleFlight ==
    \A t1, t2 \in Tasks :
        (pc[t1] = "refresh" /\ pc[t2] = "refresh") => t1 = t2

\* C2: outbound FIFO: what has been written to the socket followed by what is
\* still queued is the sequence of produce() calls in call order with the
\* failed writes left out, and is exactly that sequence while no write failed.
C2_OutboundFifo ==
    /\ IsSubSeq(wire \o send_queue, produced)
    /\ lost = <<>> => wire \o send_queue = produced

\* Three produced messages have gone over the wire and a sender task is
\* waiting on the queue it has emptied.
C2_Witness ==
    /\ Len(wire) >= 3
    /\ send_queue = <<>>
    /\ \E l \in Loops : send_pc[l] = "get"

\* C3: inbound order: what consume() calls have taken followed by what is
\* still queued is the sequence of arrivals in arrival order, nothing twice
\* and nothing reordered; with a single connection nothing is left out either.
C3_InboundOrder ==
    /\ IsSubSeq(consumed \o receive_queue, arrived)
    /\ ws_id <= 1 => consumed \o receive_queue \o sock_in = arrived

\* Two messages that arrived one after the other have both been consumed.
C3_Witness ==
    /\ Len(consumed) >= 2
    /\ consumed[1].n < consumed[2].n

\* C4: request ids on the wire are unique and strictly increasing in the
\* order the envelopes are written, login envelope included.
C4_RequestIdOrder ==
    \A i, j \in DOMAIN wire :
        i < j => wire[i].requestid < wire[j].requestid

\* The session is marked ready: connect() ended normally having logged success.
Ready(c) == conn_pc[c] = "done" /\ "LOGIN SUCCESS." \in Range(log[c])

\* C5: once the login response is evaluated, the session is marked ready iff
\* its status code is 0; otherwise it is marked failed.
C5_LoginOutcome ==
    \A c \in Conns :
        login_status[c] # "pending" => (Ready(c) <=> login_status[c] = "True")

\* C7: the refresh credential is expired iff now >= created_timestamp + 7 days.
C7_RefreshExpiryBoundary ==
    token_metadata.token # None =>
        (is_refresh_token_expired(token_metadata)
            <=> now >= token_metadata.created_timestamp + RefreshDays)

C9_LoadValid ==
    [][\A t \in Tasks :
        (/\ pc[t] = "idle" /\ pc'[t] # "idle"
         /\ token = None
         /\ store_up
         /\ ~StoreMissing(store)
         /\ ~is_expired(store[TOKEN_KEY].token)) =>
              /\ pc'[t] = "returned"
              /\ path'[t] = [load |-> "ok", refresh |-> 0, manual |-> 0]
              /\ token' = store[TOKEN_KEY].token
              /\ token_metadata'.token = token'
              /\ store' = store
              /\ issued' = issued
      ]_vars

\* The first call of the run has returned with the stored credential.
C9_Witness ==
    \E t \in Tasks :
        /\ pc[t] = "returned"
        /\ path[t] = [load |-> "ok", refresh |-> 0, manual |-> 0]
        /\ issued = 1
        /\ token = store[TOKEN_KEY].token

\* C10: a call whose load finds no record invokes manual re-authorization
\* once, and when that completes the call returns with the newly issued
\* credential in memory and in the store.
C10_LoadMissManual ==
    [][\A t \in Tasks :
        /\ (/\ pc[t] = "idle" /\ pc'[t] # "idle"
            /\ token = None \/ is_expired(token)
            /\ store_up
            /\ StoreMissing(store)) =>
              /\ pc'[t] = "manual_load"
              /\ path'[t] = [load |-> "miss", refresh |-> 0, manual |-> 1]
        /\ (pc[t] = "manual_load" /\ pc'[t] \notin {"manual_load", "raised"}) =>
              /\ pc'[t] = "returned"
              /\ path'[t] = [load |-> "miss", refresh |-> 0, manual |-> 1]
              /\ token'.access_token = issued + 1
              /\ token_metadata'.token = token'
              /\ ~StoreMissing(store')
              /\ store'[TOKEN_KEY].token = token'
      ]_vars

\* A call that found the store empty has returned after one manual
\* re-authorization.
C10_Witness ==
    \E t \in Tasks :
        /\ pc[t] = "returned"
        /\ path[t] = [load |-> "miss", refresh |-> 0, manual |-> 1]
        /\ store[TOKEN_KEY].token = token

\* C11: a call that loads a credential whose access token has expired and
\* whose refresh token has expired, which it has from created_timestamp plus
\* seven days on, invokes manual re-authorization and makes no refresh call.
C11_ExpiredManual ==
    [][\A t \in Tasks :
        (/\ pc[t] = "idle" /\ pc'[t] # "idle"
         /\ token = None \/ is_expired(token)
         /\ store_up
         /\ ~StoreMissing(store)
         /\ is_expired(store[TOKEN_KEY].token)
         /\ now >= fromtimestamp(store[TOKEN_KEY].created_timestamp)
                      + RefreshDays) =>
              /\ pc'[t] = "manual_expired"
              /\ path'[t] = [load |-> "ok", refresh |-> 0, manual |-> 1]
      ]_vars

\* C12: a successful refresh leaves created_timestamp as it was, in memory
\* and in the stored record; only the token changes.
C12_RefreshKeepsCreated ==
    [][\A t \in Tasks :
        (pc[t] = "refresh" /\ pc'[t] = "returned") =>
            /\ token_metadata'.created_timestamp
                  = token_metadata.created_timestamp
            /\ token_metadata'.token = token'
            /\ token' # token_metadata.token
            /\ store'[TOKEN_KEY] =
                  [created_timestamp |->
                       timestamp(token_metadata.created_timestamp),
                   token |-> token']
            /\ ~StoreMissing(store) =>
                  store'[TOKEN_KEY].created_timestamp
                      = store[TOKEN_KEY].created_timestamp
      ]_vars

\* The credential loaded at the start has been refreshed twice and still
\* carries the created_timestamp it was loaded with.
C12_Witness ==
    \E t \in Tasks :
        /\ pc[t] = "returned"
        /\ path[t].refresh = 1
        /\ token.access_token > 2
        /\ token_metadata.created_timestamp < StartNow
        /\ store[TOKEN_KEY].created_timestamp
              = timestamp(token_metadata.created_timestamp)

\* C13: a call that has to load while the store does not answer ends with
\* the store's error at the caller: the credential, the store and the call
\* counts are as before, no manual re-authorization and no refresh call is
\* made, and the load is not tried again.
C13_StoreUnreachable ==
    [][\A t \in Tasks :
        (/\ pc[t] = "idle" /\ pc'[t] # "idle"
         /\ token = None \/ is_expired(token)
         /\ ~store_up) =>
              /\ pc'[t] = "raised"
              /\ error'[t] = "store"
              /\ path'[t] = [load |-> "unreachable", refresh |-> 0,
                             manual |-> 0]
              /\ UNCHANGED <<token, token_metadata, store, issued>>
      ]_vars

\* A call has ended with the error of the store that did not answer.
C13_Witness ==
    \E t \in Tasks :
        /\ pc[t] = "raised"
        /\ error[t] = "store"
        /\ path[t].load = "unreachable"
        /\ ~store_up

\* C14: when the refresh call fails the call ends with that error at the
\* caller: nothing is installed or stored and no manual re-authorization is
\* started.
C14_RefreshFailure ==
    [][\A t \in Tasks :
        (pc[t] = "refresh" /\ pc'[t] # "refresh" /\ issued' = issued) =>
            /\ pc'[t] = "raised"
            /\ error'[t] = "refresh_token"
            /\ path'[t] = path[t]
            /\ UNCHANGED <<token, token_metadata, store>>
      ]_vars

\* A call has ended with the error of its refresh call.
C14_Witness ==
    \E t \in Tasks :
        /\ pc[t] = "raised"
        /\ error[t] = "refresh_token"
        /\ path[t].refresh = 1
        /\ path[t].manual = 0

\* C15: in every request operation, whatever its verb, the session call is
\* made at most once; when it is rejected with InvalidTokenError,
\* check_authentication is called once, the request is not issued again, and
\* the operation returns None to its caller.
C15_RejectedOnce ==
    \A t \in Tasks :
        /\ req[t].calls <= 1
        /\ req[t].checks <= 1
        /\ req[t].pc = "auth" => req[t].rejected
        /\ req[t].rejected =>
              /\ req[t].verb \in Verbs
              /\ req[t].pc \in {"auth", "returned", "raised"}
              /\ req[t].checks = 1
              /\ req[t].calls = 1
              /\ req[t].pc = "returned" => req[t].result = NoResponse

\* A DELETE whose token was rejected has returned after one
\* check_authentication call.
C15_Witness ==
    \E t \in Tasks :
        /\ req[t].pc = "returned"
        /\ req[t].verb = "DELETE"
        /\ req[t].rejected
        /\ req[t].checks = 1
        /\ req[t].calls = 1

\* C16: an operation whose session call returned a response returns to its
\* caller and does not raise: the response itself when the status is 2xx,
\* None otherwise; check_authentication is not called in either case.
C16_StatusOutcome ==
    \A t \in Tasks :
        req[t].response # NoResponse =>
            /\ req[t].pc = "returned"
            /\ req[t].checks = 0
            /\ pc[t] = "idle"
            /\ req[t].result =
                  IF req[t].response.status_code \in 200..299
                  THEN req[t].response
                  ELSE NoResponse

\* One operation has returned None for a 500 and another the response for
\* a 200.
C16_Witness ==
    \E t, u \in Tasks :
        /\ req[t].pc = "returned"
        /\ req[t].response = Response(500)
        /\ req[t].result = NoResponse
        /\ req[u].pc = "returned"
        /\ req[u].response = Response(200)
        /\ req[u].result = Response(200)

\* C17: after each evaluation by the gate task the gate is set exactly when
\* openTime <= now < closeTime held at the evaluation: clear before
\* openTime, set at openTime, clear at closeTime.
C17_GateHalfOpen ==
    gate_eval.at # NoTime =>
        (mkt_interrupt <=> /\ gate_eval.openTime <= gate_eval.at
                           /\ gate_eval.at < gate_eval.closeTime)

\* C18: every round of market requests is started while the gate is set.
C18_GateLevelTriggered ==
    \A k \in 1..Len(mf_work) : mf_work[k]

\* str padded on the right with ch up to width characters
PadRight(str, width, ch) ==
    [k \in 1..(IF Len(str) > width THEN Len(str) ELSE width) |->
        IF k <= Len(str) THEN str[k] ELSE ch]

\* C19: for an input made of a root without digits, six date digits, C or P
\* and the strike digits, parse_option_string returns the root padded with
\* spaces to 6 characters, the date, the type and the strike padded with
\* zeros to 8 characters; AAPL241115C00200 gives "AAPL  241115C00200000" and
\* GOOG250101P01500 gives "GOOG  250101P01500000".
C19_ParseReference ==
    sym_out # <<>> =>
        /\ sym_out = PadRight(sym_parts.root, 6, " ") \o sym_parts.date
                        \o <<sym_parts.type>>
                        \o PadRight(sym_parts.strike, 8, "0")
        /\ sym_in = <<"A", "A", "P", "L", "2", "4", "1", "1", "1", "5", "C",
                      "0", "0", "2", "0", "0">> =>
              sym_out = <<"A", "A", "P", "L", " ", " ", "2", "4", "1", "1",
                          "1", "5", "C", "0", "0", "2", "0", "0", "0", "0",
                          "0">>
        /\ sym_in = <<"G", "O", "O", "G", "2", "5", "0", "1", "0", "1", "P",
                      "0", "1", "5", "0", "0">> =>
              sym_out = <<"G", "O", "O", "G", " ", " ", "2", "5", "0", "1",
                          "0", "1", "P", "0", "1", "5", "0", "0", "0", "0",
                          "0">>

\* AAPL241115C00200 has been transformed.
C19_Witness ==
    /\ sym_parts.root = <<"A", "A", "P", "L">>
    /\ sym_parts.strike = <<"0", "0", "2", "0", "0">>
    /\ Len(sym_in) = 16
    /\ Len(sym_out) = 21

\* The strings of list joined by commas, built from the left
RECURSIVE JoinedUpTo(_, _)
JoinedUpTo(list, n) ==
    IF n = 0 THEN <<>>
    ELSE IF n = 1 THEN list[1]
    ELSE JoinedUpTo(list, n - 1) \o <<",">> \o list[n]

\* The field numbers 0..last as decimal numerals
Numerals(last) ==
    [k \in 1..(last + 1) |->
        LET ch(d) == SubSeq(<<"0", "1", "2", "3", "4", "5", "6", "7", "8", "9">>,
                            d + 1, d + 1)
        IN IF k - 1 < 10 THEN ch(k - 1)
           ELSE ch((k - 1) \div 10) \o ch((k - 1) % 10)]

\* The 21-character form of the two reference option symbols
Reference(sym) ==
    IF sym = <<"A", "A", "P", "L", "2", "4", "1", "1", "1", "5", "C",
               "0", "0", "2", "0", "0">>
    THEN <<"A", "A", "P", "L", " ", " ", "2", "4", "1", "1", "1", "5", "C",
           "0", "0", "2", "0", "0", "0", "0", "0">>
    ELSE <<"G", "O", "O", "G", " ", " ", "2", "5", "0", "1", "0", "1", "P",
           "0", "1", "5", "0", "0", "0", "0", "0">>

\* C20: a subscription enqueues exactly one envelope through produce(); it
\* carries the next request id, the session's customer and correlation
\* identifiers and the SUBS command; its keys are the symbols joined by commas,
\* each passed through the option symbol transform for LEVELONE_OPTIONS and
\* OPTIONS_BOOK and unchanged for LEVELONE_EQUITIES and NASDAQ_BOOK; its fields
\* are the given fields joined by commas, or the whole catalogue of the
\* service when no fields are given.
C20_Subscription ==
    [][ (request_id' # request_id /\ conn_pc' = conn_pc) =>
          LET m == produced'[Len(produced')]
              symbols == IF m.service \in {"LEVELONE_OPTIONS", "OPTIONS_BOOK"}
                         THEN [k \in 1..Len(sub_args.options) |->
                                  Reference(sub_args.options[k])]
                         ELSE sub_args.tickers
              last == IF m.service = "LEVELONE_EQUITIES" THEN 51
                      ELSE IF m.service = "LEVELONE_OPTIONS" THEN 55
                      ELSE 3
              fields == IF sub_args.fields = << <<"None">> >>
                        THEN Numerals(last)
                        ELSE sub_args.fields
          IN /\ produced' = Append(produced, m)
             /\ send_queue' = Append(send_queue, m)
             /\ m.wrapped
             /\ m.requestid = request_id
             /\ request_id' = request_id + 1
             /\ m.SchwabClientCustomerId = _stream_customer_id
             /\ m.SchwabClientCorrelId = _stream_correl_id
             /\ m.command = "SUBS"
             /\ m.service \in {"LEVELONE_EQUITIES", "LEVELONE_OPTIONS",
                               "OPTIONS_BOOK", "NASDAQ_BOOK"}
             /\ m.parameters.keys = JoinedUpTo(symbols, Len(symbols))
             /\ m.parameters.fields = JoinedUpTo(fields, Len(fields)) ]_vars

\* After login, two option symbols were subscribed to with no field list on
\* LEVELONE_OPTIONS and the envelope is queued.
C20_Witness ==
    /\ Len(sub_args.options) = 2
    /\ sub_args.fields = << <<"None">> >>
    /\ \E k \in 1..Len(send_queue) :
          /\ send_queue[k].wrapped
          /\ send_queue[k].service = "LEVELONE_OPTIONS"
          /\ send_queue[k].SchwabClientCustomerId = "customer"
          /\ Len(send_queue[k].parameters.keys) = 43

\* C21: save() followed by load() is a round trip. Whenever the record is
\* written, the store holds it under the one fixed key with exactly the
\* members created_timestamp and token, and load() on that store gives the
\* token and the created_timestamp that were saved; whenever a call loads, it
\* has the token of the record and the created_timestamp the record was
\* saved with.
C21_SaveLoadRoundTrip ==
    [][/\ store' # store =>
            /\ DOMAIN store' = {"schwabToken"}
            /\ DOMAIN store'["schwabToken"] = {"created_timestamp", "token"}
            /\ load(store').token = token_metadata'.token
            /\ load(store').created_timestamp
                  = token_metadata'.created_timestamp
       /\ \A t \in Tasks :
            (pc[t] = "idle" /\ path'[t].load = "ok") =>
                /\ token_metadata'.token = store["schwabToken"].token
                /\ token_metadata'.created_timestamp * 86400
                      = store["schwabToken"].created_timestamp
      ]_vars

\* A call has loaded the record this run saved after a refresh: the token is
\* the refreshed one and created_timestamp is the one the first load gave.
C21_Witness ==
    \E t \in Tasks :
        /\ path[t].load = "ok"
        /\ pc[t] # "idle"
        /\ token_metadata.token.access_token >= 2
        /\ token_metadata.token = store[TOKEN_KEY].token
        /\ token_metadata.created_timestamp < StartNow

\* C22: the login poll gives up. A connect() call that is the only one made
\* and is still waiting for its login answer has not yet taken as many empty
\* or undecodable answers as the server can send: once it has, it has stopped
\* polling and reported the login as failed.
C22_LoginGivesUp ==
    \A c \in Conns :
        (/\ conn_pc[c] = "login"
         /\ \A d \in Conns \ {c} : conn_pc[d] = "idle") =>
             \/ Len(consumed) < MaxInbound
             \/ \E k \in 1..Len(consumed) :
                    consumed[k].body \notin {"empty", "malformed"}

\* C23: every message written to the socket, the login message included, is
\* an envelope {"requests": [request]} around one request object.
C23_WireEnvelope ==
    \A i \in DOMAIN wire :
        /\ wire[i].wrapped
        /\ {"service", "requestid", "command"} \subseteq DOMAIN wire[i]

\* C24: a call made while the credential in memory exists and its access
\* token is still valid returns at once: the credential, created_timestamp
\* and the stored record are as before, and no load, no refresh call and no
\* manual re-authorization is made, whether the store answers or not.
C24_ValidInMemory ==
    [][\A t \in Tasks :
        (/\ pc[t] = "idle" /\ pc'[t] # "idle"
         /\ token # None
         /\ ~is_expired(token)) =>
              /\ pc'[t] = "returned"
              /\ path'[t] = [load |-> "none", refresh |-> 0, manual |-> 0]
              /\ UNCHANGED <<token, token_metadata, store, issued>>
      ]_vars

\* A call has returned without loading while the store did not answer, after
\* an earlier call of this run had put the credential in memory.
C24_Witness ==
    \E t \in Tasks :
        /\ pc[t] = "returned"
        /\ path[t].load = "none"
        /\ token # None
        /\ ~is_expired(token)
        /\ ~store_up

\* C25: the socket handle is replaced only by connect(). Every step that puts
\* another connection in self._ws, or after which a socket that was not open
\* is open, is the step of a connect() call whose ws_client.connect returned;
\* no step of the sender or receiver tasks, of produce() or of consume() is.
C25_HandleOnlyByConnect ==
    [][ (ws_id' # ws_id \/ (ws # "open" /\ ws' = "open")) =>
            \E c \in Conns :
                conn_pc[c] = "connecting" /\ conn_pc'[c] = "login" ]_vars

\* The first socket was closed, the tasks ran on, and a second connect() has
\* put a new open socket in place; a message has been written and one read.
C25_Witness ==
    /\ ws_id = 2
    /\ ws = "open"
    /\ wire # <<>>
    /\ consumed # <<>>
    /\ \E l \in Loops : send_pc[l] = "get"
    /\ \E l \in Loops : recv_pc[l] = "recv"

\* C26: a write that fails on a closed connection costs exactly the message
\* the sender had taken. On the failing step the sender task goes back to the
\* top of its loop, the message leaves the queue and is not written; it is
\* never written or queued afterwards, and the messages still queued are
\* written in the order they were queued.
C26_FailedWrite ==
    [][ /\ lost' # lost =>
              \E l \in Loops :
                  /\ send_pc[l] = "get" /\ send_pc'[l] = "check"
                  /\ ws # "open"
                  /\ send_queue # <<>>
                  /\ lost' = Append(lost, Head(send_queue))
                  /\ send_queue' = Tail(send_queue)
                  /\ wire' = wire
        /\ \A k \in DOMAIN lost' :
              /\ \A i \in DOMAIN wire' : wire'[i] # lost'[k]
              /\ \A i \in DOMAIN send_queue' : send_queue'[i] # lost'[k]
        /\ IsSubSeq(wire' \o send_queue', produced')
        /\ \A l \in Loops : send_pc[l] # "off" => send_pc'[l] # "off"
      ]_vars

\* A write failed on the closed socket; after a second connect() opened a new
\* one, the messages that were still queued have all been written.
C26_Witness ==
    /\ lost # <<>>
    /\ ws_id = 2
    /\ send_queue = <<>>
    /\ Len(produced) >= 3
    /\ \E i \in DOMAIN wire, k \in DOMAIN produced, j \in DOMAIN produced :
          /\ produced[k] = lost[1]
          /\ produced[j] = wire[i]
          /\ k < j

\* C27: once connect() has started them, the sender task and the receiver
\* task never end: after every step, a read error, a write error and a
\* timeout included, each is at the top of its loop or waiting inside it, and
\* it always has a next step to take.
C27_LoopsNeverEnd ==
    [][\A l \in Loops :
          /\ send_pc[l] # "off" =>
                /\ send_pc'[l] \in {"check", "get"}
                /\ send_pc'[l] # send_pc[l] => 
                      (send_pc[l] = "get" => send_pc'[l] = "check")
                /\ ENABLED (\/ _send_msg_check(l)
                            \/ _send_msg_send(l)
                            \/ _send_msg_timeout(l))
          /\ recv_pc[l] # "off" =>
                /\ recv_pc'[l] \in {"check", "recv"}
                /\ recv_pc'[l] # recv_pc[l] => 
                      (recv_pc[l] = "recv" => recv_pc'[l] = "check")
                /\ ENABLED (\/ _recv_msg_check(l)
                            \/ _recv_msg_recv(l)
                            \/ _recv_msg_nothing(l))
      ]_vars

\* The first socket is gone, a write has failed on it, a second connect() has
\* come and its socket is closed too; both pairs of tasks are at the top of
\* their loops.
C27_Witness ==
    /\ lost # <<>>
    /\ ws_id = 2
    /\ ws = "closed"
    /\ \A l \in Loops : send_pc[l] = "check" /\ recv_pc[l] = "check"

\* C28: the gate task evaluates the window for the life of the process,
\* whatever the refresh task has stored, None for both times included: the
\* gate is never set while the window does not contain now at the evaluation
\* that set it, and while the window contains now and the gate is clear the
\* gate task is still running, so that an evaluation is still to come.
C28_GateKeepsEvaluating ==
    /\ (mkt_interrupt /\ gate_eval.at # NoTime) =>
           /\ gate_eval.openTime <= gate_eval.at
           /\ gate_eval.at <= gate_eval.closeTime
    /\ (/\ mkt_status.openTime # NoTime
        /\ mkt_status.closeTime # NoTime
        /\ mkt_status.openTime <= now
        /\ now < mkt_status.closeTime
        /\ ~mkt_interrupt) => gate_pc = "running"

\* C29: for every input made of a root, six date digits, C or P and strike
\* digits, the output of parse_option_string has exactly 21 characters.
C29_FixedWidth ==
    sym_out # <<>> => Len(sym_out) = 21

\* C29, amended: for every such input whose root has at most 6 characters
\* and whose strike has at most 8 digits, the output has exactly 21
\* characters: the root field in 1..6, the date in 7..12, the type at 13 and
\* the strike field in 14..21.
C29_FixedWidthInRange ==
    (/\ sym_out # <<>>
     /\ Len(sym_parts.root) <= 6
     /\ Len(sym_parts.strike) <= 8) =>
          /\ Len(sym_out) = 21
          /\ SubSeq(sym_out, 7, 12) = sym_parts.date
          /\ sym_out[13] = sym_parts.type
          /\ \A k \in 1..6 :
                sym_out[k] = IF k <= Len(sym_parts.root)
                             THEN sym_parts.root[k] ELSE " "
          /\ \A k \in 1..8 :
                sym_out[13 + k] = IF k <= Len(sym_parts.strike)
                                  THEN sym_parts.strike[k] ELSE "0"

\* A one-character root with a two-digit strike has been transformed into 21
\* characters.
C29_Witness ==
    /\ Len(sym_parts.root) = 1
    /\ Len(sym_parts.strike) = 2
    /\ Len(sym_out) = 21

\* C30: when the streamerInfo entry lacks any of the five identifiers, a
\* connect() call ends with an error: no socket is opened, no sender or
\* receiver task is started and no login request is enqueued.
C30_MissingIdentifier ==
    [][DOMAIN user_preference # DOMAIN StreamerInfo =>
          /\ ws' = ws
          /\ ws_id' = ws_id
          /\ send_pc' = send_pc
          /\ recv_pc' = recv_pc
          /\ send_queue' = send_queue
          /\ produced' = produced
          /\ \A c \in Conns :
                conn_pc'[c] # conn_pc[c] => conn_pc'[c] = "raised"]_vars

\* A client whose entry lacks only the customer id has called connect(), and
\* the call has ended with an error before any socket, task or login request.
C30_Witness ==
    /\ DOMAIN user_preference =
          DOMAIN StreamerInfo \ {"schwabClientCustomerId"}
    /\ \E c \in Conns : conn_pc[c] = "raised"
    /\ ws = "unset"
    /\ produced = <<>>
    /\ \A l \in Loops : send_pc[l] = "off" /\ recv_pc[l] = "off"

C32_OneLoopPair ==
    /\ Cardinality({l \in Loops : send_pc[l] # "off"}) <= 1
    /\ Cardinality({l \in Loops : recv_pc[l] # "off"}) <= 1

\* C33: a failed refresh changes no state: on the step on which the refresh
\* call of a caller raises, the session's token, the token manager's token
\* and created_timestamp and the stored record are what they were, and they
\* are the credential as it was loaded: the session's token is the token
\* manager's, and the token manager is what load() gives for the stored
\* record.
C33_FailedRefreshNoChange ==
    [][\A t \in Tasks :
          (pc[t] = "refresh" /\ error'[t] = "refresh_token") =>
             /\ token' = token
             /\ token_metadata'.token = token_metadata.token
             /\ token_metadata'.created_timestamp
                   = token_metadata.created_timestamp
             /\ store' = store
             /\ issued' = issued
             /\ token' = token_metadata'.token
             /\ ~StoreMissing(store')
             /\ token_metadata' = load(store')
      ]_vars

\* A caller loaded an access-expired credential, its refresh call has failed,
\* and memory and store still hold the credential it loaded.
C33_Witness ==
    \E t \in Tasks :
        /\ pc[t] = "raised"
        /\ error[t] = "refresh_token"
        /\ path[t].load = "ok"
        /\ is_expired(token)
        /\ token_metadata = load(store)
        /\ issued = 1

\* C34: whenever check_authentication returns normally the session's token
\* is not None and is the token manager's token, and if this call refreshed
\* or re-authorized, the stored record holds that token.
C34_ReturnState ==
    [][\A t \in Tasks :
          (pc[t] # "returned" /\ pc'[t] = "returned") =>
             /\ token' # None
             /\ token' = token_metadata'.token
             /\ (path'[t].refresh > 0 \/ path'[t].manual > 0) =>
                   /\ ~StoreMissing(store')
                   /\ store'[TOKEN_KEY].token = token'
      ]_vars

\* One call has returned without refreshing after a load, and another has
\* returned after its refresh; the store holds the token that refresh
\* obtained.
C34_Witness ==
    \E t, u \in Tasks :
        /\ pc[t] = "returned" /\ path[t].load = "ok" /\ path[t].refresh = 0
        /\ path[t].manual = 0
        /\ pc[u] = "returned" /\ path[u].refresh = 1
        /\ token # None
        /\ store[TOKEN_KEY].token = token

\* a is the front of b
IsPrefixOf(a, b) == Len(a) <= Len(b) /\ SubSeq(b, 1, Len(a)) = a

\* C35: a sender task goes on to the outbound queue only in an iteration in
\* which it saw the socket open; while the socket is closed and every running
\* sender is at the top of its loop nothing leaves the queue, so what is
\* produced then stays queued in order; and every write takes the oldest
\* queued message, on an open socket.
C35_ClosedKeepsQueued ==
    [][/\ \A l \in Loops :
             (send_pc[l] = "check" /\ send_pc'[l] # "check") => ws = "open"
       /\ (ws_closed /\ \A l \in Loops : send_pc[l] \in {"off", "check"}) =>
             /\ IsPrefixOf(send_queue, send_queue')
             /\ wire' = wire
             /\ lost' = lost
       /\ wire' # wire =>
             /\ ws = "open"
             /\ send_queue # <<>>
             /\ wire' = Append(wire, queue_get(send_queue))
             /\ send_queue' = Tail(send_queue)
      ]_vars

\* The socket has closed after the login was written, the sender is at the
\* top of its loop, and two subscription requests wait in the queue in the
\* order they were produced; nothing has been lost.
C35_Witness ==
    /\ ws = "closed"
    /\ ws_id = 1
    /\ send_pc[1] = "check"
    /\ Len(wire) = 1
    /\ lost = <<>>
    /\ Len(send_queue) = 2
    /\ send_queue[1].wrapped /\ send_queue[2].wrapped
    /\ send_queue[1].requestid < send_queue[2].requestid

C37_LoginFirst ==
    wire # <<>> => (wire[1].service = "ADMIN" /\ wire[1].command = "LOGIN")

\* C38: for an input whose root has at most 6 non-digit characters and whose
\* strike has at most 8 digits, applying parse_option_string to its own
\* output returns that output unchanged.
C38_Idempotent ==
    [][(/\ sym_out # <<>>
        /\ sym_in' = sym_out
        /\ Len(sym_parts.root) <= 6
        /\ Len(sym_parts.strike) <= 8) =>
             /\ sym_out' = sym_out
             /\ Len(sym_out') = 21
      ]_vars

\* The transform has been applied to the 21 characters it made of a
\* one-character root and a one-digit strike, and has returned them.
C38_Witness ==
    /\ Len(sym_parts.root) = 1
    /\ Len(sym_parts.strike) = 1
    /\ sym_in # option_string(sym_parts)
    /\ Len(sym_in) = 21
    /\ sym_out = sym_in

\* C39: whenever the outbound queue is empty and every sender task is at
\* the top of its loop, the queue's count of unfinished tasks is zero: every
\* message taken from the queue has been acknowledged, a message whose write
\* failed included.
C39_Acknowledged ==
    (send_queue = <<>> /\ \A l \in Loops : send_pc[l] \in {"off", "check"})
        => _unfinished_tasks = 0

====
